---- MODULE Spec2Model ----
(***************************************************************************)
(* INMET Data Quality Analyzer: the loader (modules/data_loader.py), the   *)
(* validator (modules/data_validator.py) and the metrics calculator        *)
(* (modules/quality_metrics.py) as state machines.                         *)
(*                                                                         *)
(* Spec        the pipeline of app.py after a load: DataValidator(df),     *)
(*             validate_physical_limits(), QualityMetricsCalculator(df,    *)
(*             results) and any sequence of calculator calls.              *)
(* SpecLoader  INMETDataLoader over a file: validate_file, load_data step  *)
(*             by step, and the getters.                                   *)
(*                                                                         *)
(* Numbers: Python floats are modelled as exact rationals [n, d] in lowest *)
(* terms with d > 0, plus NaN (the value numpy gives for 0/0).  Table      *)
(* values are integers, or tenths in the loader (one fractional digit).    *)
(***************************************************************************)
EXTENDS Integers, Sequences, FiniteSets, TLC

VARIABLES df, validator, calc, lastCall,
          file, fileSize, loader, pc, work, outcome, progress, loads, tieOrder

vars == <<df, validator, calc, lastCall,
          file, fileSize, loader, pc, work, outcome, progress, loads, tieOrder>>

metricsVars == <<df, validator, calc, lastCall>>

loaderVars == <<file, fileSize, loader, pc, work, outcome, progress, loads, tieOrder>>

\* ------------------------------------------------------------------ bounds

\* Longest table of the exhaustively enumerated tables.
MaxRows == 2

\* Longest table of the spike tables (one far value among equal ones).
MaxSpikeRows == 12

\* Most data rows of a model file.
MaxFileRows == 2

\* Most calls of load_data on one loader.
MaxLoads == 2

\* ------------------------------------------------------------- src/config.py

MAX_FILE_SIZE_MB == 200

MAX_FILE_SIZE_BYTES == MAX_FILE_SIZE_MB * 1024 * 1024

CSV_SEPARATOR == ";"

DECIMAL_SEPARATOR == ","

METADATA_END_LINE == 9

HEADER_LINE == 10

PRECIP == "PRECIPITACAO TOTAL, DIARIO (AUT)(mm)"

UMID == "UMIDADE RELATIVA DO AR, MEDIA DIARIA (AUT)(%)"

\* A real INMET column that config.py gives no physical range.
INSOL == "INSOLACAO TOTAL, DIARIO (AUT)(h)"

PHYSICAL_LIMITS ==
  [c \in { PRECIP,
           "PRESSAO ATMOSFERICA MEDIA DIARIA (AUT)(mB)",
           "TEMPERATURA DO PONTO DE ORVALHO MEDIA DIARIA (AUT)(°C)",
           "TEMPERATURA MAXIMA, DIARIA (AUT)(°C)",
           "TEMPERATURA MEDIA, DIARIA (AUT)(°C)",
           "TEMPERATURA MINIMA, DIARIA (AUT)(°C)",
           UMID,
           "UMIDADE RELATIVA DO AR, MINIMA DIARIA (AUT)(%)",
           "VENTO, RAJADA MAXIMA DIARIA (AUT)(m/s)",
           "VENTO, VELOCIDADE MEDIA DIARIA (AUT)(m/s)" } |->
     CASE c = PRECIP -> <<0, 500>>
       [] c = "PRESSAO ATMOSFERICA MEDIA DIARIA (AUT)(mB)" -> <<900, 1050>>
       [] c = "TEMPERATURA DO PONTO DE ORVALHO MEDIA DIARIA (AUT)(°C)" -> <<-50, 50>>
       [] c = "TEMPERATURA MAXIMA, DIARIA (AUT)(°C)" -> <<-50, 60>>
       [] c = "TEMPERATURA MEDIA, DIARIA (AUT)(°C)" -> <<-50, 60>>
       [] c = "TEMPERATURA MINIMA, DIARIA (AUT)(°C)" -> <<-50, 60>>
       [] c = UMID -> <<0, 100>>
       [] c = "UMIDADE RELATIVA DO AR, MINIMA DIARIA (AUT)(%)" -> <<0, 100>>
       [] c = "VENTO, RAJADA MAXIMA DIARIA (AUT)(m/s)" -> <<0, 100>>
       [] OTHER -> <<0, 50>>]

\* ------------------------------------------------------------ float values

NaN == [n |-> 0, d |-> 0]

IsNaN(x) == x.d = 0

Abs(a) == IF a < 0 THEN -a ELSE a

RECURSIVE GCD(_, _)
GCD(a, b) == IF b = 0 THEN a ELSE GCD(b, a % b)

\* The rational n/d, d > 0, in lowest terms.
Rat(n, d) == LET g == GCD(Abs(n), d) IN [n |-> n \div g, d |-> d \div g]

Num(i) == [n |-> i, d |-> 1]

\* a / b of two counts as numpy computes it: 0/0 is nan (a warning, no
\* exception).  A count over 0 other than 0/0 does not occur: every numerator
\* here counts rows of the table the denominator is the length of.
NpDiv(a, b) == IF b = 0 THEN NaN ELSE Rat(a, b)

FAdd(x, y) ==
  IF IsNaN(x) \/ IsNaN(y) THEN NaN ELSE Rat(x.n * y.d + y.n * x.d, x.d * y.d)

FMul(x, y) ==
  IF IsNaN(x) \/ IsNaN(y) THEN NaN ELSE Rat(x.n * y.n, x.d * y.d)

\* x / k for a positive count k.
FDivInt(x, k) == IF IsNaN(x) THEN NaN ELSE Rat(x.n, x.d * k)

\* Every comparison with nan is False.
FLt(x, y) == ~IsNaN(x) /\ ~IsNaN(y) /\ x.n * y.d < y.n * x.d

FGe(x, y) == ~IsNaN(x) /\ ~IsNaN(y) /\ x.n * y.d >= y.n * x.d

FLe(x, y) == FGe(y, x)

\* Python's min(a, b): b when b < a, else a; min(nan, 100) is nan.
PyMin(a, b) == IF FLt(b, a) THEN b ELSE a

RECURSIVE FSum(_)
FSum(s) == IF s = <<>> THEN Num(0) ELSE FAdd(Head(s), FSum(Tail(s)))

\* numpy.mean of a list: nan for the empty list.
NpMean(s) == IF s = <<>> THEN NaN ELSE FDivInt(FSum(s), Len(s))

QUALITY_INDEX_WEIGHTS ==
  [completude |-> Rat(4, 10), validade |-> Rat(4, 10), consistencia |-> Rat(2, 10)]

adequado == 80

parcialmente_adequado == 60

RECOMMENDATION_CRITERIA ==
  [adequado |-> Num(adequado), parcialmente_adequado |-> Num(parcialmente_adequado)]

\* ------------------------------------------------------------------ tables

\* A cell of a table: a number, or null (NaN / NA / NaT).
NA == [isna |-> TRUE, v |-> 0]

Cell(x) == [isna |-> FALSE, v |-> x]

None == "<None>"

Range(s) == {s[i] : i \in 1..Len(s)}

RECURSIVE SeqSum(_)
SeqSum(s) == IF s = <<>> THEN 0 ELSE Head(s) + SeqSum(Tail(s))

\* A table: the column names in order, the number of rows (len(df)) and the
\* cells of each column.  The row labels are 0..nrows-1 (reset_index).
Table(columns, nrows, data) == [columns |-> columns, nrows |-> nrows, data |-> data]

\* series.notna().sum()
NotNaCount(s) == Cardinality({i \in 1..Len(s) : ~s[i].isna})

\* series.dropna(), as the sequence of its values
DropNa(s) ==
  LET keep == SelectSeq(s, LAMBDA c : ~c.isna)
  IN  [i \in 1..Len(keep) |-> keep[i].v]

\* [col for col in df.columns if col != 'Data']
VariableColumns(t) == SelectSeq(t.columns, LAMBDA c : c # "Data")

\* ------------------------------------------- modules/data_validator.py

\* DataValidator.__init__: a private copy of the table, empty caches.
NewValidator(t) == [df |-> t, validation_results |-> <<>>]

\* The same with the limits themselves out of range (>, <).
valid_mask_exclusive(s, min_limit, max_limit) ==
  [i \in 1..Len(s) |-> ~s[i].isna /\ s[i].v > min_limit /\ s[i].v < max_limit]

\* (df[col] >= min_limit) & (df[col] <= max_limit): False on a null cell (a
\* comparison with NaN is False; with a nullable dtype it is NA, which sum()
\* skips and which "& ~null_mask" turns to False: the counts are the same).
valid_mask(s, min_limit, max_limit) ==
  [i \in 1..Len(s) |-> ~s[i].isna /\ s[i].v >= min_limit /\ s[i].v <= max_limit]

null_mask(s) == [i \in 1..Len(s) |-> s[i].isna]

\* ~valid_mask alone: a null cell counts as out of range.
invalid_mask_with_nulls(s, min_limit, max_limit) ==
  [i \in 1..Len(s) |-> ~valid_mask(s, min_limit, max_limit)[i]]

\* ~valid_mask & ~null_mask
invalid_mask(s, min_limit, max_limit) ==
  [i \in 1..Len(s) |->
     ~valid_mask(s, min_limit, max_limit)[i] /\ ~null_mask(s)[i]]

MaskSum(m) == Cardinality({i \in 1..Len(m) : m[i]})

\* df[mask].index.tolist(): the 0-based row labels where the mask holds.
MaskIndices(m) ==
  LET idx == SelectSeq([i \in 1..Len(m) |-> i], LAMBDA i : m[i])
  IN  [k \in 1..Len(idx) |-> idx[k] - 1]

\* One entry of validate_physical_limits' result.
LimitsEntry(t, col) ==
  LET min_limit == PHYSICAL_LIMITS[col][1]
      max_limit == PHYSICAL_LIMITS[col][2]
      s == t.data[col]
  IN  [ valid_count |-> MaskSum(valid_mask(s, min_limit, max_limit)),
        invalid_count |-> MaskSum(invalid_mask(s, min_limit, max_limit)),
        null_count |-> MaskSum(null_mask(s)),
        total_count |-> t.nrows,
        valid_percentage |->
          FMul(NpDiv(MaskSum(valid_mask(s, min_limit, max_limit)), t.nrows), Num(100)),
        invalid_indices |-> MaskIndices(invalid_mask(s, min_limit, max_limit)),
        min_limit |-> min_limit,
        max_limit |-> max_limit ]

\* DataValidator.validate_physical_limits: an entry for every column other
\* than 'Data' that PHYSICAL_LIMITS names.
validate_physical_limits(t) ==
  [col \in {c \in Range(t.columns) : c # "Data" /\ c \in DOMAIN PHYSICAL_LIMITS} |->
     LimitsEntry(t, col)]

\* ------------------------------------------- modules/quality_metrics.py

\* "if column: columns = [column] else: every column but 'Data'"
ColumnsOf(t, column) == IF column # None THEN <<column>> ELSE VariableColumns(t)

\* The same counting every row as non-null.
calculate_completeness_of_rows(t, column) ==
  [col \in Range(ColumnsOf(t, column)) |->
     [ non_null_count |-> t.nrows,
       null_count |-> 0,
       total_count |-> t.nrows,
       completeness_percentage |-> FMul(NpDiv(t.nrows, t.nrows), Num(100)) ]]

calculate_completeness(t, column) ==
  [col \in Range(ColumnsOf(t, column)) |->
     LET non_null_count == NotNaCount(t.data[col])
         total_count == t.nrows
     IN  [ non_null_count |-> non_null_count,
           null_count |-> total_count - non_null_count,
           total_count |-> total_count,
           completeness_percentage |->
             FMul(NpDiv(non_null_count, total_count), Num(100)) ]]

\* The same with the percentage taken over all rows, nulls included.
calculate_validity_over_rows(t, validation_results, column) ==
  [col \in {c \in Range(ColumnsOf(t, column)) : c \in DOMAIN validation_results} |->
     LET result == validation_results[col]
     IN  [ valid_count |-> result.valid_count,
           invalid_count |-> result.invalid_count,
           null_count |-> result.null_count,
           total_count |-> result.total_count,
           validity_percentage |->
             IF result.total_count > 0
               THEN FMul(Rat(result.valid_count, result.total_count), Num(100))
               ELSE Num(0),
           min_limit |-> result.min_limit,
           max_limit |-> result.max_limit ]]

calculate_validity(t, validation_results, column) ==
  [col \in {c \in Range(ColumnsOf(t, column)) : c \in DOMAIN validation_results} |->
     LET result == validation_results[col]
         total_non_null == result.valid_count + result.invalid_count
     IN  [ valid_count |-> result.valid_count,
           invalid_count |-> result.invalid_count,
           null_count |-> result.null_count,
           total_count |-> result.total_count,
           validity_percentage |->
             IF total_non_null > 0
               THEN FMul(Rat(result.valid_count, total_non_null), Num(100))
               ELSE Num(0),
           min_limit |-> result.min_limit,
           max_limit |-> result.max_limit ]]

\* pandas' Series.std() divides by n - 1.
StdDdof == 1

\* n * x - sum(data): n times the deviation of x from the mean.
Dev(data, x) == Len(data) * x - SeqSum(data)

\* sum of the squares of Dev over the data: n^2 (n - ddof) times the variance.
DevSS(data) == SeqSum([i \in 1..Len(data) |-> Dev(data, data[i]) * Dev(data, data[i])])

\* std == 0: every value equals the mean.
StdIsZero(data) == DevSS(data) = 0

\* abs((x - mean) / std) > 3, multiplied out:
\* (x - mean)^2 > 9 * var  <=>  Dev^2 * (n - ddof) > 9 * DevSS.
ZScoreAbove3(data, x) ==
  Dev(data, x) * Dev(data, x) * (Len(data) - StdDdof) > 3 * 3 * DevSS(data)

calculate_consistency(t, column) ==
  [col \in Range(ColumnsOf(t, column)) |->
     LET data == DropNa(t.data[col])
         anomaly_count ==
           IF StdIsZero(data) THEN 0
           ELSE Cardinality({i \in 1..Len(data) : ZScoreAbove3(data, data[i])})
     IN  IF Len(data) < 2
           THEN [ consistency_percentage |-> Num(0),
                  anomaly_count |-> 0,
                  message |-> "Dados insuficientes" ]
           ELSE [ consistency_percentage |->
                    FMul(Rat(Len(data) - anomaly_count, Len(data)), Num(100)),
                  anomaly_count |-> anomaly_count,
                  anomaly_percentage |-> FMul(Rat(anomaly_count, Len(data)), Num(100)),
                  mean |-> Rat(SeqSum(data), Len(data)) ]]

\* The weights of validity and consistency taken for each other.
WeightedIndexSwapped(comp_score, valid_score, cons_score) ==
  FAdd(FAdd(FMul(comp_score, QUALITY_INDEX_WEIGHTS.completude),
            FMul(valid_score, QUALITY_INDEX_WEIGHTS.consistencia)),
       FMul(cons_score, QUALITY_INDEX_WEIGHTS.validade))

\* comp_score * W['completude'] + valid_score * W['validade'] + cons_score * W['consistencia']
WeightedIndex(comp_score, valid_score, cons_score) ==
  FAdd(FAdd(FMul(comp_score, QUALITY_INDEX_WEIGHTS.completude),
            FMul(valid_score, QUALITY_INDEX_WEIGHTS.validade)),
       FMul(cons_score, QUALITY_INDEX_WEIGHTS.consistencia))

\* d.get(col, {}).get(key, 0)
GetPct(d, col, key) == IF col \in DOMAIN d THEN d[col][key] ELSE Num(0)

\* QualityMetricsCalculator.calculate_quality_index: the dict it returns and
\* stores in self.metrics.
calculate_quality_index(t, validation_results, column) ==
  LET completeness == calculate_completeness(t, column)
      validity == calculate_validity(t, validation_results, column)
      consistency == calculate_consistency(t, column)
  IN  [col \in DOMAIN completeness |->
         LET comp_score == PyMin(completeness[col].completeness_percentage, Num(100))
             valid_score == PyMin(GetPct(validity, col, "validity_percentage"), Num(100))
             cons_score == PyMin(GetPct(consistency, col, "consistency_percentage"), Num(100))
         IN  [ quality_index |-> WeightedIndex(comp_score, valid_score, cons_score),
               completeness_score |-> comp_score,
               validity_score |-> valid_score,
               consistency_score |-> cons_score ]]

\* ">" for ">=": an index on a threshold falls to the band below.
get_recommendation_strict(quality_index) ==
  IF FLt(RECOMMENDATION_CRITERIA.adequado, quality_index) THEN "Adequado"
  ELSE IF FLt(RECOMMENDATION_CRITERIA.parcialmente_adequado, quality_index)
         THEN "Parcialmente Adequado"
  ELSE "Inadequado"

get_recommendation(quality_index) ==
  IF FGe(quality_index, RECOMMENDATION_CRITERIA.adequado) THEN "Adequado"
  ELSE IF FGe(quality_index, RECOMMENDATION_CRITERIA.parcialmente_adequado)
         THEN "Parcialmente Adequado"
  ELSE "Inadequado"

\* [m[key] for m in metrics.values()], in the order of the table's columns.
MetricsValues(t, metrics, key) ==
  LET cols == SelectSeq(VariableColumns(t), LAMBDA c : c \in DOMAIN metrics)
  IN  [i \in 1..Len(cols) |-> metrics[cols[i]][key]]

\* The dict get_overall_quality_index builds from self.metrics.
OverallOf(t, metrics) ==
  LET quality_indices == MetricsValues(t, metrics, "quality_index")
      overall_index == IF quality_indices = <<>> THEN Num(0) ELSE NpMean(quality_indices)
  IN  [ overall_quality_index |-> overall_index,
        recommendation |-> get_recommendation(overall_index),
        variable_count |-> Cardinality(DOMAIN metrics),
        average_completeness |-> NpMean(MetricsValues(t, metrics, "completeness_score")),
        average_validity |-> NpMean(MetricsValues(t, metrics, "validity_score")),
        average_consistency |-> NpMean(MetricsValues(t, metrics, "consistency_score")) ]

\* self.metrics after get_overall_quality_index's "if not self.metrics:
\* self.calculate_quality_index()".
MetricsForOverall(t, validation_results, metrics) ==
  IF DOMAIN metrics = {} THEN calculate_quality_index(t, validation_results, None)
  ELSE metrics

\* ------------------------------------------------- the tables of Spec

PrecipValues == {NA, Cell(0), Cell(500), Cell(501)}

InsolValues == {NA, Cell(5)}

\* The 'Data' column of a loaded table: ascending days.
Days(n) == [i \in 1..n |-> Cell(i)]

SmallTables ==
  UNION { {Table(<<"Data">>, n, "Data" :> Days(n))}
          \cup {Table(<<"Data", PRECIP>>, n, ("Data" :> Days(n)) @@ (PRECIP :> p)) :
                  p \in [1..n -> PrecipValues]}
          \cup {Table(<<"Data", INSOL>>, n, ("Data" :> Days(n)) @@ (INSOL :> q)) :
                  q \in [1..n -> InsolValues]}
          \cup {Table(<<"Data", PRECIP, INSOL>>, n,
                      ("Data" :> Days(n)) @@ (PRECIP :> p) @@ (INSOL :> q)) :
                  p \in [1..n -> PrecipValues], q \in [1..n -> InsolValues]}
        : n \in 0..MaxRows }

\* n rows, 11 or more: PRECIP is 0 but for one out-of-range last value (a
\* z-score above 3), INSOL is constant but for a null first value.
SpikeTables ==
  { Table(<<"Data", PRECIP, INSOL>>, n,
          ("Data" :> Days(n))
          @@ (PRECIP :> [i \in 1..n |-> IF i = n THEN Cell(501) ELSE Cell(0)])
          @@ (INSOL :> [i \in 1..n |-> IF i = 1 THEN NA ELSE Cell(5)]))
    : n \in 11..MaxSpikeRows }

\* Eleven rows whose largest value is more than 3 population standard
\* deviations and less than 3 sample standard deviations from the mean.
NearThresholdTable ==
  Table(<<"Data", PRECIP>>, 11,
        ("Data" :> Days(11))
        @@ (PRECIP :> [i \in 1..11 |-> IF i = 11 THEN Cell(5)
                                       ELSE IF i = 10 THEN Cell(1) ELSE Cell(0)]))

Tables == SmallTables \cup SpikeTables \cup {NearThresholdTable}

\* The indices get_recommendation is called with directly (tenths).
IndexInputs == {Rat(k, 10) : k \in {0, 599, 600, 601, 799, 800, 801, 1000}}

\* ----------------------------------------------------------------- text
\* A line of the file is the sequence of its characters (the line break left
\* out); a file is the sequence of its lines.

RECURSIVE Join(_)

\* The Python str of a sequence of characters.
Join(s) == IF s = <<>> THEN "" ELSE Head(s) \o Join(Tail(s))

\* pat in s
Contains(s, pat) ==
  \E i \in 1..(Len(s) - Len(pat) + 1) : SubSeq(s, i, i + Len(pat) - 1) = pat

\* s.startswith(pat)
StartsWith(s, pat) == Len(s) >= Len(pat) /\ SubSeq(s, 1, Len(pat)) = pat

\* The first index of character c in s, 0 when there is none.
IndexOf(s, c) ==
  IF \E i \in 1..Len(s) : s[i] = c
    THEN CHOOSE i \in 1..Len(s) : s[i] = c /\ \A j \in 1..(i - 1) : s[j] # c
    ELSE 0

RECURSIVE Split(_, _)

\* s.split(sep), every field kept
Split(s, sep) ==
  LET i == IndexOf(s, sep)
  IN  IF i = 0 THEN <<s>>
      ELSE <<SubSeq(s, 1, i - 1)>> \o Split(SubSeq(s, i + 1, Len(s)), sep)

RECURSIVE LStrip(_)
LStrip(s) == IF s # <<>> /\ Head(s) = " " THEN LStrip(Tail(s)) ELSE s

RECURSIVE RStrip(_)
RStrip(s) ==
  IF s # <<>> /\ s[Len(s)] = " " THEN RStrip(SubSeq(s, 1, Len(s) - 1)) ELSE s

\* s.strip()
Strip(s) == RStrip(LStrip(s))

DigitChars == <<"0", "1", "2", "3", "4", "5", "6", "7", "8", "9">>

IsDigit(c) == \E i \in 1..10 : DigitChars[i] = c

DigitVal(c) == (CHOOSE i \in 1..10 : DigitChars[i] = c) - 1

AllDigits(s) == \A i \in 1..Len(s) : IsDigit(s[i])

RECURSIVE ParseUInt(_)

\* The value of a sequence of digits (0 for the empty one).
ParseUInt(s) ==
  IF s = <<>> THEN 0
  ELSE 10 * ParseUInt(SubSeq(s, 1, Len(s) - 1)) + DigitVal(s[Len(s)])

\* The parser's string-to-number conversion with `decimal` the decimal
\* separator: an optional sign, digits, optionally the separator and more
\* digits, at least one digit in all, nothing else.  The value is in tenths:
\* a model field has at most one fractional digit.
ParseNumber(s, decimal) ==
  LET signed == s # <<>> /\ Head(s) \in {"-", "+"}
      body == IF signed THEN Tail(s) ELSE s
      i == IndexOf(body, decimal)
      ipart == IF i = 0 THEN body ELSE SubSeq(body, 1, i - 1)
      fpart == IF i = 0 THEN <<>> ELSE SubSeq(body, i + 1, Len(body))
      ok == AllDigits(ipart) /\ AllDigits(fpart) /\ Len(ipart) + Len(fpart) >= 1
      mag == 10 * ParseUInt(ipart) + (IF fpart = <<>> THEN 0 ELSE DigitVal(fpart[1]))
  IN  [ok |-> ok, v |-> IF ~ok THEN 0 ELSE IF signed /\ Head(s) = "-" THEN -mag ELSE mag]

IsLeap(y) == (y % 4 = 0 /\ y % 100 # 0) \/ y % 400 = 0

DaysBeforeMonth == <<0, 31, 59, 90, 120, 151, 181, 212, 243, 273, 304, 334>>

DaysInMonth(y, m) ==
  IF m = 2 THEN (IF IsLeap(y) THEN 29 ELSE 28)
  ELSE IF m \in {4, 6, 9, 11} THEN 30 ELSE 31

\* The day number of a calendar date (date.toordinal()).
ToOrdinal(y, m, d) ==
  LET y1 == y - 1
  IN  y1 * 365 + (y1 \div 4) - (y1 \div 100) + (y1 \div 400)
      + DaysBeforeMonth[m] + (IF m > 2 /\ IsLeap(y) THEN 1 ELSE 0) + d

\* strptime(s, '%Y-%m-%d'): four digits, '-', one or two digits, '-', one or
\* two digits, a date of the calendar; anything else does not parse.
ParseDate(s) ==
  LET parts == Split(s, "-")
      shape == /\ Len(parts) = 3
               /\ Len(parts[1]) = 4 /\ AllDigits(parts[1])
               /\ Len(parts[2]) \in {1, 2} /\ AllDigits(parts[2])
               /\ Len(parts[3]) \in {1, 2} /\ AllDigits(parts[3])
      y == ParseUInt(parts[1])
      m == ParseUInt(parts[2])
      d == ParseUInt(parts[3])
      ok == shape /\ m \in 1..12 /\ d >= 1 /\ d <= DaysInMonth(y, m)
  IN  [ok |-> ok, v |-> IF ok THEN ToOrdinal(y, m, d) ELSE 0]

\* ------------------------------------------------------- the model's files

MARKER == <<"D", "a", "t", "a", " ", "M", "e", "d", "i", "c", "a", "o">>

PRECIP_CHARS == <<"P", "R", "E", "C", "I", "P", "I", "T", "A", "C", "A", "O", " ", "T", "O", "T", "A", "L", ",", " ", "D", "I", "A", "R", "I", "O", " ", "(", "A", "U", "T", ")", "(", "m", "m", ")">>

\* Header lines: with the marker, with a date column but no marker, with
\* neither.  Every line of a table ends with the separator, as INMET's do.
HeaderMarker == MARKER \o <<";">> \o PRECIP_CHARS \o <<";">>

HeaderData == <<"D", "a", "t", "a", ";">> \o PRECIP_CHARS \o <<";">>

HeaderDia == <<"D", "i", "a", ";">> \o PRECIP_CHARS \o <<";">>

\* The lines before the header: the station's metadata block.
MetaLines ==
  << <<"N", "o", "m", "e", ":", " ", "B", "E", "L", "E", "M">>,
     <<"C", "o", "d", "i", "g", "o", " ", "E", "s", "t", "a", "c", "a", "o", ":", " ", "A", "2", "0", "1">>,
     <<"L", "a", "t", "i", "t", "u", "d", "e", ":", " ", "-", "1", ".", "4", "1">>,
     <<"L", "o", "n", "g", "i", "t", "u", "d", "e", ":", " ", "-", "4", "8", ".", "4", "3">>,
     <<"A", "l", "t", "i", "t", "u", "d", "e", ":", " ", "2", "1", ".", "1", "7">>,
     <<"S", "i", "t", "u", "a", "c", "a", "o", ":", " ", "O", "p", "e", "r", "a", "n", "t", "e">>,
     <<"D", "a", "t", "a", " ", "I", "n", "i", "c", "i", "a", "l", ":", " ", "2", "0", "2", "4", "-", "0", "1", "-", "0", "1">>,
     <<"D", "a", "t", "a", " ", "F", "i", "n", "a", "l", ":", " ", "2", "0", "2", "4", "-", "0", "1", "-", "0", "4">>,
     <<"P", "e", "r", "i", "o", "d", "i", "c", "i", "d", "a", "d", "e", " ", "d", "a", " ", "M", "e", "d", "i", "c", "a", "o", ":", " ", "D", "i", "a", "r", "i", "a">>,
     <<"-", "-">>,
     <<"s", "e", "m", " ", "d", "a", "d", "o", "s">> >>

\* Data rows: date;value; with decimal commas, a field that begins with the
\* separator, a word, an integer, a null token, a null date, a date in
\* another format, and a repeated date.
RowChoices ==
  { <<"2", "0", "2", "4", "-", "0", "1", "-", "0", "2", ";", "1", ",", "5", ";">>,
    <<"2", "0", "2", "4", "-", "0", "1", "-", "0", "1", ";", ",", "5", ";">>,
    <<"2", "0", "2", "4", "-", "0", "1", "-", "0", "2", ";", "a", "b", "c", ";">>,
    <<";", "2", ";">>,
    <<"2", "0", "2", "4", "-", "0", "1", "-", "0", "2", ";", "n", "u", "l", "l", ";">>,
    <<"2", "0", "2", "4", "/", "0", "1", "/", "0", "3", ";", ",", "5", ";">> }

Bodies == UNION {[1..n -> RowChoices] : n \in 0..MaxFileRows}

\* Lines of a metadata block: a line without a colon, a line that repeats
\* the key of line 3 with spaces around its parts and a colon in its value,
\* a line with a key of its own, and a plain line.
MetaChoices ==
  { <<"-", "-">>,
    <<" ", "L", "a", "t", "i", "t", "u", "d", "e", " ", ":", " ", "1", ":", "2", " ">>,
    <<"E", "x", "t", "r", "a", ":", " ", "x">>,
    <<"N", "o", "m", "e", ":", " ", "B", "E", "L", "E", "M">> }

\* Files whose lines 1, 9 and 10 are any of these lines, around lines 2 to 8
\* of the metadata block, followed by the header and one row.
MetaFiles ==
  { <<a>> \o SubSeq(MetaLines, 2, 8) \o <<b, c>> \o <<HeaderMarker>>
      \o << <<"2", "0", "2", "4", "-", "0", "1", "-", "0", "1", ";", "2", ";">> >> :
      a \in MetaChoices, b \in MetaChoices, c \in MetaChoices }

\* The files: the header at line 10 after the metadata block (with the
\* marker, or without it where the default line index finds it or finds a
\* header with no date column), the marker at another line, and a file with
\* neither the marker nor a line 10.
Files ==
  { SubSeq(MetaLines, 1, 10) \o <<h>> \o b : h \in {HeaderMarker, HeaderData, HeaderDia},
                                            b \in Bodies }
  \cup { SubSeq(MetaLines, 1, 11) \o <<HeaderMarker>> \o b : b \in Bodies }
  \cup { SubSeq(MetaLines, 1, 2) \o <<HeaderData>> \o b : b \in Bodies }
  \cup MetaFiles

FileSizes == {MAX_FILE_SIZE_BYTES, MAX_FILE_SIZE_BYTES + 1}

\* ---------------------------------------------- modules/data_loader.py

NULL_VALUES == {"null", "NULL", "None", "nan", "NaN", ""}

\* read_csv adds na_values to its own list of null tokens.
NA_VALUES ==
  NULL_VALUES \cup {"#N/A", "#N/A N/A", "#NA", "-1.#IND", "-1.#QNAN", "-NaN", "-nan",
                    "1.#IND", "1.#QNAN", "<NA>", "N/A", "NA", "n/a"}

\* f.readline() for the i-th line (1-based): '' past the end of the file.
ReadLine(f, i) == IF i <= Len(f) THEN f[i] ELSE <<>>

RECURSIVE MetadataUpTo(_, _)

\* The dict after the first k lines: "if ':' in line: key, value =
\* line.split(':', 1); metadata[key.strip()] = value.strip()".
MetadataUpTo(f, k) ==
  IF k = 0 THEN <<>>
  ELSE LET before == MetadataUpTo(f, k - 1)
           line == Strip(ReadLine(f, k))
           i == IndexOf(line, ":")
           key == Join(Strip(SubSeq(line, 1, i - 1)))
           value == Join(Strip(SubSeq(line, i + 1, Len(line))))
       IN  IF i = 0 THEN before
           ELSE [x \in DOMAIN before \cup {key} |-> IF x = key THEN value ELSE before[x]]

\* The metadata of the first METADATA_END_LINE + 1 lines.
extract_metadata_with_next_line(f) == MetadataUpTo(f, METADATA_END_LINE + 1)

\* INMETDataLoader.extract_metadata
extract_metadata(f) == MetadataUpTo(f, METADATA_END_LINE)

\* The number of the first line holding 'Data Medicao' counted from 1.
find_header_line_from_one(f) ==
  IF \E i \in 1..Len(f) : Contains(f[i], MARKER)
    THEN CHOOSE i \in 1..Len(f) :
           Contains(f[i], MARKER) /\ \A j \in 1..(i - 1) : ~Contains(f[j], MARKER)
    ELSE HEADER_LINE

\* INMETDataLoader.find_header_line: the 0-based index of the first line
\* holding 'Data Medicao', else HEADER_LINE.
find_header_line(f) ==
  IF \E i \in 1..Len(f) : Contains(f[i], MARKER)
    THEN (CHOOSE i \in 1..Len(f) :
            Contains(f[i], MARKER) /\ \A j \in 1..(i - 1) : ~Contains(f[j], MARKER)) - 1
    ELSE HEADER_LINE

\* INMETDataLoader.fix_malformed_numbers, on the characters of a str
fix_malformed_numbers(value) ==
  IF StartsWith(value, <<",">>) THEN <<"0">> \o value ELSE value

Raised(error) == [raised |-> TRUE, error |-> error]

Returned(value) == [raised |-> FALSE, value |-> value]

\* 'Data'
DATA == <<"D", "a", "t", "a">>

\* A frame during the load: as a table, with the characters of each column's
\* name and each column's dtype ("number", "string" or "datetime"); a string
\* cell holds its characters, a number cell tenths, a datetime cell a day
\* number.
Frame(columns, nrows, data, dtypes) ==
  [columns |-> columns, nrows |-> nrows, data |-> data, dtypes |-> dtypes]

\* The k-th field of a record; a short record is filled with nulls.
FieldAt(record, k) == IF k <= Len(record) THEN record[k] ELSE <<>>

IsNaToken(field) == Join(field) \in NA_VALUES

\* pd.read_csv(path, sep=';', decimal=',', skiprows=header_line,
\* na_values=NULL_VALUES): the first line left is the header (an empty name
\* becomes 'Unnamed: k', k its 0-based place, below 10 in a model file), a
\* file with no line left raises EmptyDataError; a
\* column whose non-null fields all convert is a number column, any other a
\* string column.
read_csv(f, header_line) ==
  LET rest == SubSeq(f, header_line + 1, Len(f))
      header == Split(rest[1], CSV_SEPARATOR)
      records == [r \in 1..(Len(rest) - 1) |-> Split(rest[r + 1], CSV_SEPARATOR)]
      names == [k \in 1..Len(header) |->
                  IF header[k] = <<>>
                    THEN <<"U", "n", "n", "a", "m", "e", "d", ":", " ">>
                         \o <<DigitChars[k]>>
                    ELSE header[k]]
      pos(name) == CHOOSE k \in 1..Len(names) : names[k] = name
      fields(name) == [r \in 1..Len(records) |-> FieldAt(records[r], pos(name))]
      numeric(name) ==
        \A r \in 1..Len(records) :
          IsNaToken(fields(name)[r]) \/ ParseNumber(fields(name)[r], DECIMAL_SEPARATOR).ok
      cell(name, field) ==
        IF IsNaToken(field) THEN NA
        ELSE IF numeric(name) THEN Cell(ParseNumber(field, DECIMAL_SEPARATOR).v)
        ELSE Cell(field)
  IN  IF rest = <<>> THEN Raised("EmptyDataError")
      ELSE Returned(Frame(names, Len(records),
                          [name \in Range(names) |->
                             [r \in 1..Len(records) |-> cell(name, fields(name)[r])]],
                          [name \in Range(names) |->
                             IF numeric(name) THEN "number" ELSE "string"]))

\* No dropna: every column is kept.
dropna_columns_none(t) == t

\* df.dropna(axis=1, how='all'): the columns with a non-null cell; a frame
\* with no rows keeps none.
dropna_columns(t) ==
  LET keep == SelectSeq(t.columns,
                        LAMBDA c : \E r \in 1..t.nrows : ~t.data[c][r].isna)
  IN  Frame(keep, t.nrows, [c \in Range(keep) |-> t.data[c]],
            [c \in Range(keep) |-> t.dtypes[c]])

\* df.rename(columns={old: 'Data'})
rename_column(t, old) ==
  LET ren(c) == IF c = old THEN DATA ELSE c
      columns == [k \in 1..Len(t.columns) |-> ren(t.columns[k])]
      src(c) == IF c = DATA THEN old ELSE c
  IN  Frame(columns, t.nrows, [c \in Range(columns) |-> t.data[src(c)]],
            [c \in Range(columns) |-> t.dtypes[src(c)]])

\* "if 'Data Medicao' in df.columns: rename; elif
\* df.columns[0].startswith('Data'): rename": df.columns[0] of a frame with
\* no column raises IndexError.
rename_date_column(t) ==
  IF MARKER \in Range(t.columns) THEN Returned(rename_column(t, MARKER))
  ELSE IF t.columns = <<>> THEN Raised("IndexError")
  ELSE IF StartsWith(t.columns[1], DATA) THEN Returned(rename_column(t, t.columns[1]))
  ELSE Returned(t)

\* df['Data'] = pd.to_datetime(df['Data'], format='%Y-%m-%d',
\* errors='coerce'): KeyError without the column; a cell that does not parse
\* becomes NaT.
to_datetime_column(t) ==
  IF DATA \notin Range(t.columns) THEN Raised("KeyError")
  ELSE LET conv(c) == IF c.isna \/ t.dtypes[DATA] # "string" THEN NA
                      ELSE IF ParseDate(c.v).ok THEN Cell(ParseDate(c.v).v) ELSE NA
       IN  Returned(Frame(t.columns, t.nrows,
                          [c \in Range(t.columns) |->
                             IF c = DATA THEN [r \in 1..t.nrows |-> conv(t.data[c][r])]
                             ELSE t.data[c]],
                          [c \in Range(t.columns) |->
                             IF c = DATA THEN "datetime" ELSE t.dtypes[c]]))

\* pd.to_numeric(value, errors='coerce') of one repaired cell: the decimal
\* point is '.', whatever DECIMAL_SEPARATOR is.
to_numeric(c) ==
  IF c.isna THEN NA
  ELSE IF ParseNumber(c.v, ".").ok THEN Cell(ParseNumber(c.v, ".").v)
  ELSE NA

\* What load_data does to a column that is neither 'Data' nor a number column.
repair_cell(c) == IF c.isna THEN c ELSE Cell(fix_malformed_numbers(c.v))

\* "for col in df.columns: if col != 'Data' and col not in numeric_cols:
\* df[col] = df[col].apply(fix_malformed_numbers); df[col] = to_numeric(...)"
coerce_columns(t) ==
  LET touched(c) == c # DATA /\ t.dtypes[c] # "number"
  IN  Frame(t.columns, t.nrows,
            [c \in Range(t.columns) |->
               IF touched(c)
                 THEN [r \in 1..t.nrows |-> to_numeric(repair_cell(t.data[c][r]))]
                 ELSE t.data[c]],
            [c \in Range(t.columns) |-> IF touched(c) THEN "number" ELSE t.dtypes[c]])

IsPermutation(order, n) == Len(order) = n /\ Range(order) = 1..n

\* The row orders sort_values('Data') may produce (quicksort, nulls last):
\* the dated rows ascending, rows of one date in an order the sort does not
\* fix, then the rows with no date in the order they had.
SortOrders(t) ==
  LET key == t.data[DATA]
  IN  { order \in [1..t.nrows -> 1..t.nrows] :
          /\ IsPermutation(order, t.nrows)
          /\ \A i, j \in 1..t.nrows :
               i < j =>
                 /\ key[order[i]].isna => key[order[j]].isna
                 /\ ~key[order[i]].isna /\ ~key[order[j]].isna
                      => key[order[i]].v <= key[order[j]].v
                 /\ key[order[i]].isna /\ key[order[j]].isna => order[i] < order[j] }

\* df.sort_values('Data').reset_index(drop=True), for one of those orders
sort_values(t, order) ==
  Frame(t.columns, t.nrows,
        [c \in Range(t.columns) |-> [r \in 1..t.nrows |-> t.data[c][order[r]]]],
        t.dtypes)

\* The table a frame is: its columns under their names as str.
ToTable(t) ==
  Table([k \in 1..Len(t.columns) |-> Join(t.columns[k])], t.nrows,
        [name \in {Join(c) : c \in Range(t.columns)} |->
           t.data[CHOOSE c \in Range(t.columns) : Join(c) = name]])

\* INMETDataLoader.get_variables
get_variables(l) == IF ~l.has_df THEN <<>> ELSE VariableColumns(l.df)

SetMin(S) == CHOOSE x \in S : \A y \in S : x <= y

SetMax(S) == CHOOSE x \in S : \A y \in S : x >= y

\* INMETDataLoader.get_data_info: {} without a table; the date range of a
\* table with no date is NaT.
get_data_info(l) ==
  IF ~l.has_df THEN <<>>
  ELSE LET dates == Range(DropNa(l.df.data["Data"]))
       IN  [ total_rows |-> l.df.nrows,
             total_columns |-> Len(l.df.columns),
             date_range_start |-> IF dates = {} THEN NA ELSE Cell(SetMin(dates)),
             date_range_end |-> IF dates = {} THEN NA ELSE Cell(SetMax(dates)),
             expected_days |->
               IF dates = {} THEN NA ELSE Cell(SetMax(dates) - SetMin(dates) + 1),
             actual_days |-> l.df.nrows,
             variables |-> VariableColumns(l.df) ]

\* ------------------------------------------------- the loader, at rest

\* INMETDataLoader.__init__: metadata {}, df None (has_df FALSE), header_line
\* None (-1).
NewLoader == [metadata |-> <<>>, df |-> Table(<<>>, 0, <<>>), has_df |-> FALSE, header_line |-> -1]

LoaderIdle ==
  /\ file = <<>>
  /\ fileSize = 0
  /\ loader = NewLoader
  /\ pc = "idle"
  /\ work = [cb |-> FALSE, df |-> [columns |-> <<>>, nrows |-> 0, data |-> <<>>, dtypes |-> <<>>]]
  /\ outcome = [kind |-> "none", error |-> "", df |-> Table(<<>>, 0, <<>>), metadata |-> <<>>]
  /\ progress = <<>>
  /\ loads = 0
  /\ tieOrder = [known |-> FALSE, order |-> <<>>]

\* ------------------------------- modules/data_validator.py: the detectors

\* x - y
FSub(x, y) == FAdd(x, FMul(Num(-1), y))

\* The rows (1-based) that series.dropna() keeps; the label of row r is r - 1.
NotNaRows(s) == SelectSeq([i \in 1..Len(s) |-> i], LAMBDA i : ~s[i].isna)

\* The k-th value of the data in ascending order.
OrderStat(data, k) ==
  CHOOSE v \in Range(data) :
    /\ Cardinality({i \in 1..Len(data) : data[i] < v}) < k
    /\ Cardinality({i \in 1..Len(data) : data[i] <= v}) >= k

\* data.quantile(qn / qd): linear interpolation between the two values of
\* the sorted data around position (qn / qd) * (n - 1).
Quantile(data, qn, qd) ==
  LET pos == qn * (Len(data) - 1)
      lo == pos \div qd
      below == OrderStat(data, lo + 1)
      above == OrderStat(data, IF pos % qd = 0 THEN lo + 1 ELSE lo + 2)
  IN  FAdd(Num(below), FMul(Rat(pos % qd, qd), Num(above - below)))

\* The same with the bounds themselves counted as outliers (<=, >=).
detect_outliers_iqr_inclusive(t, column, multiplier) ==
  LET s == t.data[column]
      data == DropNa(s)
      Q1 == Quantile(data, 1, 4)
      Q3 == Quantile(data, 3, 4)
      IQR == FSub(Q3, Q1)
      lower_bound == FSub(Q1, FMul(multiplier, IQR))
      upper_bound == FAdd(Q3, FMul(multiplier, IQR))
      outlier_mask ==
        [i \in 1..Len(s) |->
           /\ ~s[i].isna
           /\ (FLe(Num(s[i].v), lower_bound) \/ FLe(upper_bound, Num(s[i].v)))]
      outlier_indices == MaskIndices(outlier_mask)
  IN  IF Len(data) < 4 THEN [indices |-> <<>>, stats |-> <<>>]
      ELSE [ indices |-> outlier_indices,
             stats |-> [ Q1 |-> Q1,
                         Q3 |-> Q3,
                         IQR |-> IQR,
                         lower_bound |-> lower_bound,
                         upper_bound |-> upper_bound,
                         outlier_count |-> Len(outlier_indices),
                         outlier_percentage |->
                           FMul(NpDiv(Len(outlier_indices), t.nrows), Num(100)) ] ]

\* DataValidator.detect_outliers_iqr: the tuple (outlier_indices, stats_dict)
detect_outliers_iqr(t, column, multiplier) ==
  LET s == t.data[column]
      data == DropNa(s)
      Q1 == Quantile(data, 1, 4)
      Q3 == Quantile(data, 3, 4)
      IQR == FSub(Q3, Q1)
      lower_bound == FSub(Q1, FMul(multiplier, IQR))
      upper_bound == FAdd(Q3, FMul(multiplier, IQR))
      outlier_mask ==
        [i \in 1..Len(s) |->
           /\ ~s[i].isna
           /\ (FLt(Num(s[i].v), lower_bound) \/ FLt(upper_bound, Num(s[i].v)))]
      outlier_indices == MaskIndices(outlier_mask)
  IN  IF Len(data) < 4 THEN [indices |-> <<>>, stats |-> <<>>]
      ELSE [ indices |-> outlier_indices,
             stats |-> [ Q1 |-> Q1,
                         Q3 |-> Q3,
                         IQR |-> IQR,
                         lower_bound |-> lower_bound,
                         upper_bound |-> upper_bound,
                         outlier_count |-> Len(outlier_indices),
                         outlier_percentage |->
                           FMul(NpDiv(Len(outlier_indices), t.nrows), Num(100)) ] ]

\* scipy.stats.zscore divides by the population standard deviation (ddof=0).
ZscoreDdof == 0

\* The same comparing the squared score with the threshold itself.
ZScoreSquaredAbove(data, x, threshold, ddof) ==
  Dev(data, x) * Dev(data, x) * (Len(data) - ddof) * threshold.d
    > threshold.n * DevSS(data)

\* abs((x - mean) / std) > threshold with std of the given ddof, multiplied
\* out: Dev^2 * (n - ddof) * d^2 > n^2 * DevSS for threshold n/d >= 0.  With
\* std 0 the score is nan (0/0) and the comparison False.
ZScoreAbove(data, x, threshold, ddof) ==
  Dev(data, x) * Dev(data, x) * (Len(data) - ddof) * threshold.d * threshold.d
    > threshold.n * threshold.n * DevSS(data)

RECURSIVE IsPowerOfTwo(_)
IsPowerOfTwo(d) == d = 1 \/ (d % 2 = 0 /\ IsPowerOfTwo(d \div 2))

\* The fraction is a binary floating-point number (of the sizes met here).
IsBinaryFraction(r) == IsPowerOfTwo(r.d)

\* The score of x is exactly the threshold.
ZScoreAtThreshold(data, x, threshold, ddof) ==
  /\ DevSS(data) # 0
  /\ Dev(data, x) * Dev(data, x) * (Len(data) - ddof) * threshold.d * threshold.d
       = threshold.n * threshold.n * DevSS(data)

\* mean, variance and standard deviation of a value at the threshold are all
\* binary fractions: every step of (x - mean) / std is then exact and the
\* score is the threshold itself.
ZScoreComputedExactly(data, x, threshold, ddof) ==
  /\ IsBinaryFraction(Rat(SeqSum(data), Len(data)))
  /\ IsBinaryFraction(Rat(DevSS(data), Len(data) * Len(data) * (Len(data) - ddof)))
  /\ IsBinaryFraction(Rat(Abs(Dev(data, x)) * threshold.d, Len(data) * threshold.n))

\* np.abs(stats.zscore(data)) > threshold in float64.  Away from the
\* threshold rounding does not change the comparison.  A score exactly at the
\* threshold whose mean or deviation is not a binary fraction comes out as
\* the threshold or as one of its neighbours (2.9999999999999996 for nine 0
\* and a 1, 3.0000000000000013 for nine 5 and a 6): rounds_up says which.
ZScoreFloatAbove(data, x, threshold, ddof, rounds_up) ==
  \/ ZScoreAbove(data, x, threshold, ddof)
  \/ /\ ZScoreAtThreshold(data, x, threshold, ddof)
     /\ ~ZScoreComputedExactly(data, x, threshold, ddof)
     /\ rounds_up

\* The same refusing a column of exactly 2 non-null values.
detect_outliers_zscore_above_minimum(t, column, threshold, rounds_up) ==
  LET s == t.data[column]
      data == DropNa(s)
      outliers == SelectSeq(NotNaRows(s),
                            LAMBDA r : ZScoreFloatAbove(data, s[r].v, threshold,
                                                        ZscoreDdof, rounds_up))
      outlier_indices == [k \in 1..Len(outliers) |-> outliers[k] - 1]
  IN  IF Len(data) <= 2 THEN [indices |-> <<>>, stats |-> <<>>]
      ELSE [ indices |-> outlier_indices,
             stats |-> [ threshold |-> threshold,
                         mean |-> Rat(SeqSum(data), Len(data)),
                         outlier_count |-> Len(outlier_indices),
                         outlier_percentage |->
                           FMul(NpDiv(Len(outlier_indices), t.nrows), Num(100)) ] ]

\* DataValidator.detect_outliers_zscore: the tuple (outlier_indices,
\* stats_dict); 'std' (a square root) is left out of the stats.  rounds_up
\* is the way the floating-point score of a value exactly at the threshold
\* is rounded.
detect_outliers_zscore(t, column, threshold, rounds_up) ==
  LET s == t.data[column]
      data == DropNa(s)
      outliers == SelectSeq(NotNaRows(s),
                            LAMBDA r : ZScoreFloatAbove(data, s[r].v, threshold,
                                                        ZscoreDdof, rounds_up))
      outlier_indices == [k \in 1..Len(outliers) |-> outliers[k] - 1]
  IN  IF Len(data) < 2 THEN [indices |-> <<>>, stats |-> <<>>]
      ELSE [ indices |-> outlier_indices,
             stats |-> [ threshold |-> threshold,
                         mean |-> Rat(SeqSum(data), Len(data)),
                         outlier_count |-> Len(outlier_indices),
                         outlier_percentage |->
                           FMul(NpDiv(Len(outlier_indices), t.nrows), Num(100)) ] ]

\* detect_change_points' default window_size.
DefaultWindowSize == 30

\* DataValidator.detect_change_points.  rolling(window, center=True): the
\* window of the i-th value ends (window - 1) // 2 values after it; a window
\* that is not full gives NaN, and a comparison with NaN is False.  The test
\* abs(x - rolling_mean) > 2 * rolling_std is the z-score test with threshold
\* 2 and pandas' std.
detect_change_points(t, column, window_size) ==
  LET s == t.data[column]
      rows == NotNaRows(s)
      data == DropNa(s)
      offset == (window_size - 1) \div 2
      first(i) == i + offset - window_size + 1
      last(i) == i + offset
      change_mask(i) ==
        /\ first(i) >= 1
        /\ last(i) <= Len(data)
        /\ ZScoreAbove(SubSeq(data, first(i), last(i)), data[i], Num(2), StdDdof)
      changed == SelectSeq([i \in 1..Len(data) |-> i], change_mask)
      change_points == [k \in 1..Len(changed) |-> rows[changed[k]] - 1]
  IN  IF Len(data) < window_size * 2
        THEN [change_points |-> <<>>, message |-> "Dados insuficientes"]
        ELSE [ change_points |-> change_points,
               change_count |-> Len(change_points),
               change_percentage |->
                 FMul(NpDiv(Len(change_points), t.nrows), Num(100)) ]

\* One entry of consecutive_nulls; start and end are 0-based row labels.
NullRun(t, start, end, length) ==
  [ start |-> start,
    end |-> end,
    length |-> length,
    start_date |-> t.data["Data"][start + 1],
    end_date |-> t.data["Data"][end + 1] ]
RECURSIVE ScanNullsLeavingOpen(_, _, _, _, _)

\* The loop alone: a run still open after the last row is not recorded.
ScanNullsLeavingOpen(t, mask, idx, start_idx, consecutive_nulls) ==
  IF idx = Len(mask)
    THEN consecutive_nulls
  ELSE IF mask[idx + 1] /\ start_idx = -1
    THEN ScanNullsLeavingOpen(t, mask, idx + 1, idx, consecutive_nulls)
  ELSE IF ~mask[idx + 1] /\ start_idx # -1
    THEN ScanNullsLeavingOpen(t, mask, idx + 1, -1,
                              Append(consecutive_nulls,
                                     NullRun(t, start_idx, idx - 1, idx - start_idx)))
  ELSE ScanNullsLeavingOpen(t, mask, idx + 1, start_idx, consecutive_nulls)

RECURSIVE ScanNulls(_, _, _, _, _)

\* "for idx, is_null in enumerate(null_mask)" from idx on, then "if start_idx
\* is not None" after the loop; start_idx -1 is None.
ScanNulls(t, mask, idx, start_idx, consecutive_nulls) ==
  IF idx = Len(mask)
    THEN IF start_idx # -1
           THEN Append(consecutive_nulls,
                       NullRun(t, start_idx, t.nrows - 1, t.nrows - start_idx))
           ELSE consecutive_nulls
  ELSE IF mask[idx + 1] /\ start_idx = -1
    THEN ScanNulls(t, mask, idx + 1, idx, consecutive_nulls)
  ELSE IF ~mask[idx + 1] /\ start_idx # -1
    THEN ScanNulls(t, mask, idx + 1, -1,
                   Append(consecutive_nulls,
                          NullRun(t, start_idx, idx - 1, idx - start_idx)))
  ELSE ScanNulls(t, mask, idx + 1, start_idx, consecutive_nulls)

\* DataValidator.detect_missing_data_patterns
detect_missing_data_patterns(t) ==
  [col \in Range(VariableColumns(t)) |->
     LET mask == null_mask(t.data[col])
         null_count == MaskSum(mask)
     IN  IF null_count = 0
           THEN [null_count |-> 0, null_percentage |-> Num(0), consecutive_nulls |-> <<>>]
           ELSE [ null_count |-> null_count,
                  null_percentage |-> FMul(NpDiv(null_count, t.nrows), Num(100)),
                  consecutive_nulls |-> ScanNulls(t, mask, 0, -1, <<>>) ]]

\* The days of each date from the first date, not from the date before it.
date_diffs_from_first(dates) ==
  [k \in 1..Len(dates) |-> IF k = 1 THEN NA ELSE Cell(dates[k] - dates[1])]

\* The days between each date and the date before it, without the sign.
date_diffs_unsigned(dates) ==
  [k \in 1..Len(dates) |->
     IF k = 1 THEN NA ELSE Cell(Abs(dates[k] - dates[k - 1]))]

\* dates.diff().dt.days: NaN for the first date, then the days from the date
\* before.
date_diffs(dates) ==
  [k \in 1..Len(dates) |-> IF k = 1 THEN NA ELSE Cell(dates[k] - dates[k - 1])]

\* (diffs >= 0).all() or (diffs <= 0).all(): a comparison with NaN is False.
is_sorted(diffs) ==
  \/ \A k \in 1..Len(diffs) : ~diffs[k].isna /\ diffs[k].v >= 0
  \/ \A k \in 1..Len(diffs) : ~diffs[k].isna /\ diffs[k].v <= 0

\* DataValidator.validate_date_sequence
validate_date_sequence(t) ==
  LET dates == DropNa(t.data["Data"])
      diffs == date_diffs(dates)
      gap_at == SelectSeq([k \in 1..Len(dates) |-> k],
                          LAMBDA k : ~diffs[k].isna /\ diffs[k].v # 1 /\ diffs[k].v # 0)
      gaps == [g \in 1..Len(gap_at) |->
                 [date |-> dates[gap_at[g]], gap_days |-> diffs[gap_at[g]].v]]
  IN  IF Len(dates) < 2 THEN [valid |-> FALSE, message |-> "Dados insuficientes"]
      ELSE [ is_sorted |-> is_sorted(diffs),
             total_dates |-> Len(dates),
             date_range |-> <<SetMin(Range(dates)), SetMax(Range(dates))>>,
             expected_days |-> SetMax(Range(dates)) - SetMin(Range(dates)) + 1,
             actual_days |-> Len(dates),
             gaps |-> gaps,
             gap_count |-> Len(gaps) ]

\* DataValidator.get_validation_summary
get_validation_summary(t) ==
  [ physical_limits |-> validate_physical_limits(t),
    missing_patterns |-> detect_missing_data_patterns(t),
    date_validation |-> validate_date_sequence(t) ]

\* The cache filled for the requested column alone.
ResultsForAnomaliesOfColumn(v, column) ==
  IF column \in DOMAIN v.validation_results \/ column = "Data"
    THEN v.validation_results
    ELSE [c \in {column} \cap DOMAIN validate_physical_limits(v.df) |->
            validate_physical_limits(v.df)[c]]

\* self.validation_results after get_anomalies_for_variable(column): filled
\* by validate_physical_limits() when the column is not in it.
ResultsForAnomalies(v, column) ==
  IF column \in DOMAIN v.validation_results \/ column = "Data"
    THEN v.validation_results
    ELSE validate_physical_limits(v.df)

\* DataValidator.get_anomalies_for_variable: the dict it returns; the
\* detectors run with their default multiplier 1.5, threshold 3.0 and
\* window_size.
get_anomalies_for_variable(v, column, rounds_up) ==
  LET results == ResultsForAnomalies(v, column)
      iqr == detect_outliers_iqr(v.df, column, Rat(3, 2))
      zscore == detect_outliers_zscore(v.df, column, Num(3), rounds_up)
  IN  [ column |-> column,
        physical_limits |-> IF column \in DOMAIN results THEN results[column] ELSE <<>>,
        outliers_iqr |-> iqr,
        outliers_zscore |-> zscore,
        change_points |-> detect_change_points(v.df, column, DefaultWindowSize) ]

\* --------------------------------------------------------------- Spec

NoCalc == [built |-> FALSE, validation_results |-> <<>>, metrics |-> <<>>]

Call(op, arg, result) == [op |-> op, arg |-> arg, result |-> result]

Init ==
  /\ df \in Tables
  /\ validator = NewValidator(df)
  /\ calc = NoCalc
  /\ lastCall = Call("init", None, <<>>)
  /\ LoaderIdle

\* validate_physical_limits() removing the rows it finds no valid value in
\* from the caller's table.
ValidatePhysicalLimitsDroppingRows ==
  /\ validator' = [validator EXCEPT
                     !.validation_results = validate_physical_limits(validator.df)]
  /\ lastCall' = Call("validate_physical_limits", None,
                      validate_physical_limits(validator.df))
  /\ df' = LET keep == SelectSeq([i \in 1..df.nrows |-> i],
                                 LAMBDA i : \A c \in Range(VariableColumns(df)) :
                                              ~df.data[c][i].isna)
           IN  Table(df.columns, Len(keep),
                     [c \in DOMAIN df.data |-> [k \in 1..Len(keep) |-> df.data[c][keep[k]]]])
  /\ UNCHANGED calc
  /\ UNCHANGED loaderVars

\* validator.validate_physical_limits(): fills the cache, returns it.
ValidatePhysicalLimits ==
  /\ validator' = [validator EXCEPT
                     !.validation_results = validate_physical_limits(validator.df)]
  /\ lastCall' = Call("validate_physical_limits", None,
                      validate_physical_limits(validator.df))
  /\ UNCHANGED <<df, calc>>
  /\ UNCHANGED loaderVars

\* app.py: QualityMetricsCalculator(df, validation_results), with the dict
\* validate_physical_limits returned.
NewCalculator ==
  /\ ~calc.built
  /\ lastCall.op = "validate_physical_limits"
  /\ calc' = [built |-> TRUE, validation_results |-> lastCall.result, metrics |-> <<>>]
  /\ lastCall' = Call("QualityMetricsCalculator", None, <<>>)
  /\ UNCHANGED <<df, validator>>
  /\ UNCHANGED loaderVars

ColumnArgs == Range(VariableColumns(df))

CalculateQualityIndex(column) ==
  /\ calc.built
  /\ LET quality_indices == calculate_quality_index(df, calc.validation_results, column)
     IN  /\ calc' = [calc EXCEPT !.metrics = quality_indices]
         /\ lastCall' = Call("calculate_quality_index", column, quality_indices)
  /\ UNCHANGED <<df, validator>>
  /\ UNCHANGED loaderVars

\* get_variable_quality_report(column): its call of
\* calculate_quality_index(column) stores that one column's entry in
\* self.metrics.
GetVariableQualityReport(column) ==
  /\ calc.built
  /\ LET quality == calculate_quality_index(df, calc.validation_results, column)
     IN  /\ calc' = [calc EXCEPT !.metrics = quality]
         /\ lastCall' =
              Call("get_variable_quality_report", column,
                   [ variable |-> column,
                     completeness |-> calculate_completeness(df, column)[column],
                     validity |-> calculate_validity(df, calc.validation_results, column),
                     consistency |-> calculate_consistency(df, column)[column],
                     quality_index |-> quality[column] ])
  /\ UNCHANGED <<df, validator>>
  /\ UNCHANGED loaderVars

GetOverallQualityIndex ==
  /\ calc.built
  /\ LET metrics == MetricsForOverall(df, calc.validation_results, calc.metrics)
     IN  /\ calc' = [calc EXCEPT !.metrics = metrics]
         /\ lastCall' = Call("get_overall_quality_index", None, OverallOf(df, metrics))
  /\ UNCHANGED <<df, validator>>
  /\ UNCHANGED loaderVars

GetQualitySummary ==
  /\ calc.built
  /\ LET metrics == MetricsForOverall(df, calc.validation_results, calc.metrics)
     IN  /\ calc' = [calc EXCEPT !.metrics = metrics]
         /\ lastCall' =
              Call("get_quality_summary", None,
                   [ overall |-> OverallOf(df, metrics),
                     completeness |-> calculate_completeness(df, None),
                     validity |-> calculate_validity(df, calc.validation_results, None),
                     consistency |-> calculate_consistency(df, None) ])
  /\ UNCHANGED <<df, validator>>
  /\ UNCHANGED loaderVars

GetRecommendation(quality_index) ==
  /\ calc.built
  /\ lastCall' = Call("get_recommendation", quality_index,
                      get_recommendation(quality_index))
  /\ UNCHANGED <<df, validator, calc>>
  /\ UNCHANGED loaderVars

\* ---------------------------------------------------------------------
\* ReportGenerator._create_variable_analysis (report_generator.py): the
\* per-variable table of the report, recomputed from the quality summary.

ScoreOfSummaryDefaultFull(d, var, key) ==
  IF var \in DOMAIN d THEN d[var][key] ELSE Num(100)

\* d.get(var, {}).get(key, 0)
ScoreOfSummary(d, var, key) ==
  IF var \in DOMAIN d THEN d[var][key] ELSE Num(0)

\* overall_score = (comp_score * 0.4 + valid_score * 0.4 + cons_score * 0.2):
\* literal weights, no min(., 100).
overall_score(comp_score, valid_score, cons_score) ==
  FAdd(FAdd(FMul(comp_score, Rat(4, 10)), FMul(valid_score, Rat(4, 10))),
       FMul(cons_score, Rat(2, 10)))

create_variable_analysis(quality_summary) ==
  LET completeness == quality_summary.completeness
      validity == quality_summary.validity
      consistency == quality_summary.consistency
  IN  [var \in DOMAIN completeness |->
         LET comp_score == ScoreOfSummary(completeness, var, "completeness_percentage")
             valid_score == ScoreOfSummary(validity, var, "validity_percentage")
             cons_score == ScoreOfSummary(consistency, var, "consistency_percentage")
         IN  [ comp_score |-> comp_score,
               valid_score |-> valid_score,
               cons_score |-> cons_score,
               overall_score |-> overall_score(comp_score, valid_score, cons_score) ]]

\* app.py hands the summary of get_quality_summary to ReportGenerator, whose
\* report builds the per-variable table from it.
CreateVariableAnalysis ==
  /\ lastCall.op = "get_quality_summary"
  /\ lastCall' = Call("_create_variable_analysis", None,
                      create_variable_analysis(lastCall.result))
  /\ UNCHANGED <<df, validator, calc>>
  /\ UNCHANGED loaderVars

Next ==
  \/ ValidatePhysicalLimits
  \/ NewCalculator
  \/ \E column \in ColumnArgs \cup {None} : CalculateQualityIndex(column)
  \/ \E column \in ColumnArgs : GetVariableQualityReport(column)
  \/ GetOverallQualityIndex
  \/ GetQualitySummary
  \/ CreateVariableAnalysis
  \/ \E quality_index \in IndexInputs : GetRecommendation(quality_index)

Spec == Init /\ [][Next]_vars

\* --------------------------------------------------------- SpecLoader

NoFrame == Frame(<<>>, 0, <<>>, <<>>)

NoTable == Table(<<>>, 0, <<>>)

Outcome(kind, error, table, metadata) ==
  [kind |-> kind, error |-> error, df |-> table, metadata |-> metadata]

InitLoader ==
  /\ file \in Files
  /\ fileSize \in FileSizes
  /\ loader = NewLoader
  /\ pc = "idle"
  /\ work = [cb |-> FALSE, df |-> NoFrame]
  /\ outcome = Outcome("none", "", NoTable, <<>>)
  /\ progress = <<>>
  /\ loads = 0
  /\ tieOrder = [known |-> FALSE, order |-> <<>>]
  /\ df = NoTable
  /\ validator = NewValidator(df)
  /\ calc = NoCalc
  /\ lastCall = Call("init", None, <<>>)

\* "if progress_callback: progress_callback(value)", the value in tenths
Report(value) == IF work.cb THEN Append(progress, value) ELSE progress

\* "except Exception as e: st.error(...); raise": the call ends, and nothing
\* else is done.
Raise(error) ==
  /\ outcome' = Outcome("raised", error, NoTable, <<>>)
  /\ pc' = "idle"
  /\ work' = [work EXCEPT !.df = NoFrame]

\* INMETDataLoader.validate_file: False when the size read is above the
\* limit, and when reading it raised (pd.io.common.get_filepath_or_buffer
\* is not a function of every pandas, and its [1] is not a size); the
\* loader is left as it was.
ValidateFile ==
  /\ pc = "idle"
  /\ \E read_raised \in BOOLEAN :
       lastCall' = Call("validate_file", None,
                        ~read_raised /\ ~(fileSize > MAX_FILE_SIZE_BYTES))
  /\ UNCHANGED <<df, validator, calc>>
  /\ UNCHANGED loaderVars

\* load_data reporting 0.3 on entry, before the metadata and the header line
\* are read.
LoadDataReportingOnEntry(cb) ==
  /\ pc = "idle"
  /\ loads < MaxLoads
  /\ loads' = loads + 1
  /\ pc' = "extract_metadata"
  /\ work' = [cb |-> cb, df |-> NoFrame]
  /\ progress' = IF cb THEN <<3>> ELSE <<>>
  /\ outcome' = Outcome("running", "", NoTable, <<>>)
  /\ lastCall' = Call("load_data", None, <<>>)
  /\ UNCHANGED <<file, fileSize, tieOrder, loader>>
  /\ UNCHANGED <<df, validator, calc>>

\* load_data(progress_callback) is called.
LoadData(cb) ==
  /\ pc = "idle"
  /\ loads < MaxLoads
  /\ loads' = loads + 1
  /\ pc' = "extract_metadata"
  /\ work' = [cb |-> cb, df |-> NoFrame]
  /\ progress' = <<>>
  /\ outcome' = Outcome("running", "", NoTable, <<>>)
  /\ lastCall' = Call("load_data", None, <<>>)
  /\ UNCHANGED <<file, fileSize, tieOrder, loader>>
  /\ UNCHANGED <<df, validator, calc>>

\* self.extract_metadata()
ExtractMetadata ==
  /\ pc = "extract_metadata"
  /\ loader' = [loader EXCEPT !.metadata = extract_metadata(file)]
  /\ pc' = "find_header_line"
  /\ UNCHANGED <<file, fileSize, loads, tieOrder, work, outcome, progress>>
  /\ UNCHANGED metricsVars

\* header_line = self.find_header_line(); progress 0.3
FindHeaderLine ==
  /\ pc = "find_header_line"
  /\ loader' = [loader EXCEPT !.header_line = find_header_line(file)]
  /\ progress' = Report(3)
  /\ pc' = "read_csv"
  /\ UNCHANGED <<file, fileSize, loads, tieOrder, work, outcome>>
  /\ UNCHANGED metricsVars

\* The frame just read is stored in self.df at once.
ReadCsvStoringEarly ==
  /\ pc = "read_csv"
  /\ LET r == read_csv(file, loader.header_line)
     IN  IF r.raised
           THEN Raise(r.error) /\ UNCHANGED <<progress, loader>>
           ELSE /\ work' = [work EXCEPT !.df = dropna_columns(r.value)]
                /\ loader' = [loader EXCEPT !.df = ToTable(dropna_columns(r.value)),
                                            !.has_df = TRUE]
                /\ progress' = Report(6)
                /\ pc' = "to_datetime"
                /\ UNCHANGED outcome
  /\ UNCHANGED <<file, fileSize, loads, tieOrder>>
  /\ UNCHANGED metricsVars

\* df = pd.read_csv(...).dropna(axis=1, how='all'); progress 0.6
ReadCsv ==
  /\ pc = "read_csv"
  /\ LET r == read_csv(file, loader.header_line)
     IN  IF r.raised
           THEN Raise(r.error) /\ UNCHANGED progress
           ELSE /\ work' = [work EXCEPT !.df = dropna_columns(r.value)]
                /\ progress' = Report(6)
                /\ pc' = "to_datetime"
                /\ UNCHANGED outcome
  /\ UNCHANGED <<file, fileSize, loads, tieOrder, loader>>
  /\ UNCHANGED metricsVars

\* The date column is renamed to 'Data' and converted.
NormalizeDates ==
  /\ pc = "to_datetime"
  /\ LET renamed == rename_date_column(work.df)
         dated == to_datetime_column(renamed.value)
     IN  IF renamed.raised THEN Raise(renamed.error)
         ELSE IF dated.raised THEN Raise(dated.error)
         ELSE /\ work' = [work EXCEPT !.df = dated.value]
              /\ pc' = "to_numeric"
              /\ UNCHANGED outcome
  /\ UNCHANGED <<file, fileSize, loads, tieOrder, loader, progress>>
  /\ UNCHANGED metricsVars

\* The columns that are not number columns are repaired and converted;
\* progress 0.9
CoerceNumeric ==
  /\ pc = "to_numeric"
  /\ work' = [work EXCEPT !.df = coerce_columns(work.df)]
  /\ progress' = Report(9)
  /\ pc' = "sort_values"
  /\ UNCHANGED <<file, fileSize, loads, tieOrder, loader, outcome>>
  /\ UNCHANGED metricsVars

\* The sort done only under "if progress_callback:".
SortAndStoreUnderCallback ==
  /\ pc = "sort_values"
  /\ \E order \in (IF ~work.cb THEN {[i \in 1..work.df.nrows |-> i]}
                    ELSE IF tieOrder.known THEN {tieOrder.order}
                    ELSE SortOrders(work.df)) :
       LET sorted == ToTable(sort_values(work.df, order))
       IN  /\ loader' = [loader EXCEPT !.df = sorted, !.has_df = TRUE]
           /\ outcome' = Outcome("returned", "", sorted, loader.metadata)
           /\ tieOrder' = IF work.cb THEN [known |-> TRUE, order |-> order] ELSE tieOrder
  /\ progress' = Report(10)
  /\ pc' = "idle"
  /\ work' = [work EXCEPT !.df = NoFrame]
  /\ UNCHANGED <<file, fileSize, loads>>
  /\ UNCHANGED metricsVars

\* df = df.sort_values('Data').reset_index(drop=True); self.df = df;
\* progress 1.0; return df, self.metadata.  The sort is a function of its
\* input: the first sort of this file's frame shows which of the orders
\* quicksort gives it, and every later sort of the same frame gives that one.
SortAndStore ==
  /\ pc = "sort_values"
  /\ \E order \in (IF tieOrder.known THEN {tieOrder.order} ELSE SortOrders(work.df)) :
       LET sorted == ToTable(sort_values(work.df, order))
       IN  /\ loader' = [loader EXCEPT !.df = sorted, !.has_df = TRUE]
           /\ outcome' = Outcome("returned", "", sorted, loader.metadata)
           /\ tieOrder' = [known |-> TRUE, order |-> order]
  /\ progress' = Report(10)
  /\ pc' = "idle"
  /\ work' = [work EXCEPT !.df = NoFrame]
  /\ UNCHANGED <<file, fileSize, loads>>
  /\ UNCHANGED metricsVars

GetDataInfo ==
  /\ pc = "idle"
  /\ lastCall' = Call("get_data_info", None, get_data_info(loader))
  /\ UNCHANGED <<df, validator, calc>>
  /\ UNCHANGED loaderVars

GetVariables ==
  /\ pc = "idle"
  /\ lastCall' = Call("get_variables", None, get_variables(loader))
  /\ UNCHANGED <<df, validator, calc>>
  /\ UNCHANGED loaderVars

\* get_dataframe(): self.df, None before a table is stored
GetDataframe ==
  /\ pc = "idle"
  /\ lastCall' = Call("get_dataframe", None,
                      [is_none |-> ~loader.has_df, df |-> loader.df])
  /\ UNCHANGED <<df, validator, calc>>
  /\ UNCHANGED loaderVars

NextLoader ==
  \/ ValidateFile
  \/ \E cb \in BOOLEAN : LoadData(cb)
  \/ ExtractMetadata
  \/ FindHeaderLine
  \/ ReadCsv
  \/ NormalizeDates
  \/ CoerceNumeric
  \/ SortAndStore
  \/ GetDataInfo
  \/ GetVariables
  \/ GetDataframe

SpecLoader == InitLoader /\ [][NextLoader]_vars

\* ------------------------------------------------------ SpecValidator

\* Longest column of the null-mask tables.
MaxMaskRows == 7

\* Longest table of the date tables.
MaxDateRows == 4

\* Longest table of the exhaustively enumerated quartile tables.
MaxIqrRows == 4

\* Longest table of the change-point tables.
MaxChangeRows == 13

\* Every null mask of up to MaxMaskRows rows.
MaskTables ==
  UNION { {Table(<<"Data", INSOL>>, n, ("Data" :> Days(n)) @@ (INSOL :> q)) :
             q \in [1..n -> InsolValues]}
        : n \in 0..MaxMaskRows }

DateValues == {NA, Cell(1), Cell(2), Cell(4), Cell(5)}

\* Every date column of up to MaxDateRows rows over days 1, 2, 4, 5 and
\* null: in any order, with repeats and gaps.
DateTables ==
  UNION { {Table(<<"Data">>, n, "Data" :> d) : d \in [1..n -> DateValues]}
        : n \in 0..MaxDateRows }

IqrValues == {NA, Cell(0), Cell(1), Cell(9)}

\* "[10,12,11,13,12,100]", alone and after a null row.
IqrExample == <<Cell(10), Cell(12), Cell(11), Cell(13), Cell(12), Cell(100)>>

IqrExampleTables ==
  { Table(<<"Data", PRECIP>>, Len(p), ("Data" :> Days(Len(p))) @@ (PRECIP :> p)) :
      p \in {IqrExample, <<NA>> \o IqrExample} }

IqrTables ==
  UNION { {Table(<<"Data", PRECIP>>, n, ("Data" :> Days(n)) @@ (PRECIP :> p)) :
             p \in [1..n -> IqrValues]}
        : n \in 3..MaxIqrRows }
  \cup IqrExampleTables

\* n rows, 13 or more: a null, then PRECIP 0 but for one out-of-range value
\* in the middle (row 7).
ChangeTables ==
  { Table(<<"Data", PRECIP>>, n,
          ("Data" :> Days(n))
          @@ (PRECIP :> [i \in 1..n |-> IF i = 1 THEN NA
                                        ELSE IF i = 7 THEN Cell(501) ELSE Cell(0)]))
    : n \in 13..MaxChangeRows }

ValidatorTables == MaskTables \cup DateTables \cup IqrTables \cup ChangeTables \cup SpikeTables

Multipliers == {Rat(3, 2), Num(0)}

Thresholds == {Num(3), Num(2)}

WindowSizes == {6, DefaultWindowSize}

InitValidator ==
  /\ df \in ValidatorTables
  /\ validator = NewValidator(df)
  /\ calc = NoCalc
  /\ lastCall = Call("init", None, <<>>)
  /\ LoaderIdle

DetectOutliersIqr(column, multiplier) ==
  /\ lastCall' = Call("detect_outliers_iqr", <<column, multiplier>>,
                      detect_outliers_iqr(validator.df, column, multiplier))
  /\ UNCHANGED <<df, validator, calc>>
  /\ UNCHANGED loaderVars

DetectOutliersZscore(column, threshold) ==
  /\ \E rounds_up \in BOOLEAN :
       lastCall' = Call("detect_outliers_zscore", <<column, threshold>>,
                        detect_outliers_zscore(validator.df, column, threshold, rounds_up))
  /\ UNCHANGED <<df, validator, calc>>
  /\ UNCHANGED loaderVars

DetectChangePoints(column, window_size) ==
  /\ lastCall' = Call("detect_change_points", <<column, window_size>>,
                      detect_change_points(validator.df, column, window_size))
  /\ UNCHANGED <<df, validator, calc>>
  /\ UNCHANGED loaderVars

DetectMissingDataPatterns ==
  /\ lastCall' = Call("detect_missing_data_patterns", None,
                      detect_missing_data_patterns(validator.df))
  /\ UNCHANGED <<df, validator, calc>>
  /\ UNCHANGED loaderVars

ValidateDateSequence ==
  /\ lastCall' = Call("validate_date_sequence", None, validate_date_sequence(validator.df))
  /\ UNCHANGED <<df, validator, calc>>
  /\ UNCHANGED loaderVars

\* get_validation_summary(): its validate_physical_limits() fills the cache.
GetValidationSummary ==
  /\ validator' = [validator EXCEPT
                     !.validation_results = validate_physical_limits(validator.df)]
  /\ lastCall' = Call("get_validation_summary", None, get_validation_summary(validator.df))
  /\ UNCHANGED <<df, calc>>
  /\ UNCHANGED loaderVars

GetAnomaliesForVariable(column) ==
  /\ validator' = [validator EXCEPT
                     !.validation_results = ResultsForAnomalies(validator, column)]
  /\ \E rounds_up \in BOOLEAN :
       lastCall' = Call("get_anomalies_for_variable", column,
                        get_anomalies_for_variable(validator, column, rounds_up))
  /\ UNCHANGED <<df, calc>>
  /\ UNCHANGED loaderVars

NextValidator ==
  \/ ValidatePhysicalLimits
  \/ \E column \in ColumnArgs, multiplier \in Multipliers :
       DetectOutliersIqr(column, multiplier)
  \/ \E column \in ColumnArgs, threshold \in Thresholds :
       DetectOutliersZscore(column, threshold)
  \/ \E column \in ColumnArgs, window_size \in WindowSizes :
       DetectChangePoints(column, window_size)
  \/ DetectMissingDataPatterns
  \/ ValidateDateSequence
  \/ GetValidationSummary
  \/ \E column \in ColumnArgs : GetAnomaliesForVariable(column)

SpecValidator == InitValidator /\ [][NextValidator]_vars
\* --------------------------------------------------------- SpecSession

\* Longest column of equal values but one.
MaxSingleRows == 10

\* n values, 2 or more, all 5 but the last, 6, alone and after a null row:
\* the series whose last value has the largest z-score n values can give.
SingleOutlierTables ==
  UNION { { Table(<<"Data", PRECIP>>, Len(p), ("Data" :> Days(Len(p))) @@ (PRECIP :> p)) :
              p \in { [i \in 1..n |-> IF i = n THEN Cell(6) ELSE Cell(5)],
                      <<NA>> \o [i \in 1..n |-> IF i = n THEN Cell(6) ELSE Cell(5)] } }
        : n \in 2..MaxSingleRows }

\* The tables of a session that uses the validator and the calculator on one
\* table: the quartile example, the tables long enough for change points and
\* the series of equal values but one.
SessionTables ==
  IqrExampleTables \cup ChangeTables \cup SpikeTables \cup SingleOutlierTables

InitSession ==
  /\ df \in SessionTables
  /\ validator = NewValidator(df)
  /\ calc = NoCalc
  /\ lastCall = Call("init", None, <<>>)
  /\ LoaderIdle

NextSession ==
  \/ ValidatePhysicalLimits
  \/ \E column \in ColumnArgs : DetectOutliersIqr(column, Rat(3, 2))
  \/ \E column \in ColumnArgs : DetectOutliersZscore(column, Num(3))
  \/ \E column \in ColumnArgs, window_size \in WindowSizes :
       DetectChangePoints(column, window_size)
  \/ DetectMissingDataPatterns
  \/ ValidateDateSequence
  \/ \E column \in ColumnArgs : GetAnomaliesForVariable(column)
  \/ NewCalculator
  \/ \E column \in ColumnArgs \cup {None} : CalculateQualityIndex(column)
  \/ \E column \in ColumnArgs : GetVariableQualityReport(column)
  \/ GetOverallQualityIndex
  \/ GetQualitySummary

SpecSession == InitSession /\ [][NextSession]_vars

\* ------------------------------------------------------------- claims

\* x is a number of [0, 100].
InPercentRange(x) == FGe(x, Num(0)) /\ FLe(x, Num(100))

\* The entries a call of calculate_quality_index returned.
IndexEntries ==
  IF lastCall.op = "calculate_quality_index"
    THEN {lastCall.result[c] : c \in DOMAIN lastCall.result}
  ELSE IF lastCall.op = "get_variable_quality_report" THEN {lastCall.result.quality_index}
  ELSE {}

\* C1: every entry calculate_quality_index returns (and stores) has
\* quality_index = 0.4 * completeness_score + 0.4 * validity_score
\* + 0.2 * consistency_score, of the scores of that same entry; asked for
\* every column, it returns an entry for every variable column.
C1_QualityIndexIsWeightedSum ==
  /\ \A e \in IndexEntries \cup {calc.metrics[c] : c \in DOMAIN calc.metrics} :
       FMul(Num(10), e.quality_index)
         = FAdd(FAdd(FMul(Num(4), e.completeness_score), FMul(Num(4), e.validity_score)),
                FMul(Num(2), e.consistency_score))
  /\ (lastCall.op = "calculate_quality_index" /\ lastCall.arg = None)
       => DOMAIN lastCall.result = Range(VariableColumns(df))

\* An entry whose three scores differ from each other, none of them 0.
C1_Witness ==
  /\ lastCall.op = "calculate_quality_index"
  /\ \E c \in DOMAIN lastCall.result :
       LET e == lastCall.result[c]
       IN  /\ e.completeness_score # e.validity_score
           /\ e.validity_score # e.consistency_score
           /\ e.completeness_score # e.consistency_score
           /\ FLt(Num(0), e.quality_index)

\* C2: the four scores calculate_quality_index returns are within [0, 100]
\* for every table, one with no rows included.
C2_ScoresWithinRange ==
  \A e \in IndexEntries :
    /\ InPercentRange(e.completeness_score)
    /\ InPercentRange(e.validity_score)
    /\ InPercentRange(e.consistency_score)
    /\ InPercentRange(e.quality_index)

\* C3: whatever was called before, get_overall_quality_index returns what it
\* returns on a new calculator: the mean of the indices of all the variable
\* columns, and their number as variable_count (stated for the tables with
\* a row: every index is a number).
C3_OverallIsMeanOfAllVariables ==
  (lastCall.op = "get_overall_quality_index" /\ df.nrows > 0) =>
    LET all == calculate_quality_index(df, calc.validation_results, None)
        indices == [i \in 1..Len(VariableColumns(df)) |->
                      all[VariableColumns(df)[i]].quality_index]
    IN  /\ lastCall.result.variable_count = Len(VariableColumns(df))
        /\ lastCall.result.overall_quality_index
             = IF indices = <<>> THEN Num(0) ELSE NpMean(indices)

\* The label the bands of the claim give an index of [0, 100].
BandOf(index) ==
  CHOOSE label \in {"Adequado", "Parcialmente Adequado", "Inadequado"} :
    /\ label = "Adequado" <=> index.n >= 80 * index.d
    /\ label = "Parcialmente Adequado" <=> (index.n >= 60 * index.d /\ index.n < 80 * index.d)
    /\ label = "Inadequado" <=> index.n < 60 * index.d

\* C4: get_recommendation gives an index (a number of 0-100, as its
\* docstring has it) 'Adequado' iff index >= 80, 'Parcialmente Adequado' iff
\* 60 <= index < 80, 'Inadequado' iff index < 60, and the label
\* get_overall_quality_index attaches to its index follows the same bands.
C4_RecommendationBands ==
  /\ (lastCall.op = "get_recommendation" /\ InPercentRange(lastCall.arg))
       => lastCall.result = BandOf(lastCall.arg)
  /\ (lastCall.op = "get_overall_quality_index"
      /\ InPercentRange(lastCall.result.overall_quality_index))
       => lastCall.result.recommendation = BandOf(lastCall.result.overall_quality_index)
  /\ (lastCall.op = "get_quality_summary"
      /\ InPercentRange(lastCall.result.overall.overall_quality_index))
       => lastCall.result.overall.recommendation
            = BandOf(lastCall.result.overall.overall_quality_index)

\* get_recommendation(80.0) has answered 'Adequado'.
C4_Witness ==
  /\ lastCall.op = "get_recommendation"
  /\ lastCall.arg = Num(80)
  /\ lastCall.result = "Adequado"

\* The variable columns with a non-null value.
ColumnsWithData == SelectSeq(VariableColumns(df), LAMBDA c : NotNaCount(df.data[c]) > 0)

\* C5: a variable with no non-null value is left out of the overall index:
\* variable_count and the mean's denominator count the other variables only
\* (stated for a table with a row and a calculator whose stored indices
\* cover every column).
C5_EmptyVariableExcluded ==
  (lastCall.op = "get_overall_quality_index"
   /\ df.nrows > 0
   /\ DOMAIN calc.metrics = Range(VariableColumns(df))) =>
    LET indices == [i \in 1..Len(ColumnsWithData) |->
                      calc.metrics[ColumnsWithData[i]].quality_index]
    IN  /\ lastCall.result.variable_count = Len(ColumnsWithData)
        /\ lastCall.result.overall_quality_index
             = IF indices = <<>> THEN Num(0) ELSE NpMean(indices)

\* C6: in every entry of validate_physical_limits' result (returned or
\* cached), valid_count + invalid_count + null_count = total_count.
C6_ValidationCountsAddUp ==
  LET results == IF lastCall.op = "validate_physical_limits"
                   THEN {lastCall.result, validator.validation_results}
                   ELSE {validator.validation_results}
  IN  \A r \in results : \A c \in DOMAIN r :
        /\ r[c].valid_count + r[c].invalid_count + r[c].null_count = r[c].total_count
        /\ r[c].total_count = df.nrows

\* An entry for a column with a null value and an out-of-range value.
C6_Witness ==
  /\ lastCall.op = "validate_physical_limits"
  /\ \E c \in DOMAIN lastCall.result :
       lastCall.result[c].null_count > 0 /\ lastCall.result[c].invalid_count > 0

\* C7: loading a file above MAX_FILE_SIZE_BYTES fails before any parsing
\* step; no table is produced for it.
C7_SizeLimitEnforced ==
  fileSize > MAX_FILE_SIZE_BYTES =>
    /\ outcome.kind # "returned"
    /\ ~loader.has_df
    /\ pc \in {"idle", "extract_metadata"}

\* The 0-based index of the header line: the first line holding the marker,
\* the default index when no line does.
HeaderIndexOf(f) ==
  LET marked == {i \in 0..(Len(f) - 1) : Contains(f[i + 1], MARKER)}
  IN  IF marked = {} THEN HEADER_LINE ELSE SetMin(marked)

\* The file has no line at the header index, or that line names no date
\* column ('Data Medicao', 'Data', or a first column starting with 'Data').
NoHeaderRow(f) ==
  \/ HeaderIndexOf(f) >= Len(f)
  \/ LET header == Split(f[HeaderIndexOf(f) + 1], ";")
     IN  /\ MARKER \notin Range(header)
         /\ DATA \notin Range(header)
         /\ ~StartsWith(header[1], DATA)

\* The header line is the last line of the file.
NoDataRows(f) == HeaderIndexOf(f) = Len(f) - 1

\* C8: load_data of a file with no header row, or with no data row after the
\* header line, raises (EmptyDataError, IndexError or KeyError) and returns
\* and stores no table.
C8_UnrecoverableFileRaises ==
  (NoHeaderRow(file) \/ NoDataRows(file)) =>
    /\ outcome.kind # "returned"
    /\ ~loader.has_df
    /\ pc \notin {"to_numeric", "sort_values"}
    /\ (pc = "idle" /\ outcome.kind # "none")
         => (outcome.kind = "raised"
             /\ outcome.error \in {"EmptyDataError", "IndexError", "KeyError"})

\* load_data has raised on a file whose header line has no row after it.
C8_Witness ==
  /\ NoDataRows(file)
  /\ ~NoHeaderRow(file)
  /\ outcome.kind = "raised"

\* C9: a load_data that raised returned no table and stored none; the
\* getters then answer None, {} and [].
C9_NoPartialTable ==
  outcome.kind = "raised" =>
    /\ outcome.df = NoTable
    /\ ~loader.has_df
    /\ loader.df = NewLoader.df
    /\ lastCall.op = "get_dataframe" => lastCall.result.is_none
    /\ lastCall.op = "get_data_info" => lastCall.result = <<>>
    /\ lastCall.op = "get_variables" => lastCall.result = <<>>

\* get_dataframe after a load that raised once the table had been parsed.
C9_Witness ==
  /\ outcome.kind = "raised"
  /\ outcome.error = "KeyError"
  /\ lastCall.op = "get_dataframe"

\* The value fields (the second field) of the data rows of the file.
ValueFields(f) ==
  [r \in 1..(Len(f) - HeaderIndexOf(f) - 1) |->
     FieldAt(Split(f[HeaderIndexOf(f) + 1 + r], ";"), 2)]

\* C10: every field ',5' of the file is loaded as 0.5 (5 tenths), whatever
\* else its column holds: the table has as many cells 0.5 as the file has
\* fields ',5' (no other field of a model file reads 0.5).
C10_MalformedNumberRepaired ==
  (outcome.kind = "returned" /\ PRECIP \in Range(outcome.df.columns)) =>
    Cardinality({r \in 1..outcome.df.nrows : outcome.df.data[PRECIP][r] = Cell(5)})
      = Cardinality({r \in DOMAIN ValueFields(file) : ValueFields(file)[r] = <<",", "5">>})

\* The frame load_data sorts, rows in file order: the file read, its date
\* column renamed and converted, its other columns coerced (of a file whose
\* load returns).
FrameToSort(f) ==
  coerce_columns(
    to_datetime_column(
      rename_date_column(
        dropna_columns(read_csv(f, find_header_line(f)).value)).value).value)

\* The order of a stable sort by date, nulls last.
StableOrder(t) ==
  CHOOSE order \in SortOrders(t) :
    \A i, j \in 1..t.nrows :
      (i < j /\ t.data[DATA][order[i]] = t.data[DATA][order[j]]) => order[i] < order[j]

\* C11: the table load_data returns has the file's data rows, all of them,
\* ascending by date, the rows with a null date together at one end, and
\* the rows of one date, like the rows with no date, in the order they had
\* in the file.
C11_SortedByDateStable ==
  outcome.kind = "returned" =>
    LET t == outcome.df
        key == t.data["Data"]
        dated == {i \in 1..t.nrows : ~key[i].isna}
    IN  /\ t.nrows = Len(file) - HeaderIndexOf(file) - 1
        /\ \A i, j \in dated : i < j => key[i].v <= key[j].v
        /\ \/ \A i \in dated, j \in (1..t.nrows) \ dated : i < j
           \/ \A i \in dated, j \in (1..t.nrows) \ dated : j < i
        /\ t = ToTable(sort_values(FrameToSort(file), StableOrder(FrameToSort(file))))

C12_Dates == DropNa(validator.df.data["Data"])

\* validate_date_sequence has just run on the dates [D1, D1+1, D1+3, D1+4].
C12_Case ==
  /\ lastCall.op = "validate_date_sequence"
  /\ Len(C12_Dates) = 4
  /\ C12_Dates[2] = C12_Dates[1] + 1
  /\ C12_Dates[3] = C12_Dates[1] + 3
  /\ C12_Dates[4] = C12_Dates[1] + 4

\* C12 as stated: on the dates [D1, D1+1, D1+3, D1+4] date-sequence validation
\* reports exactly one gap, at the third date (D1+3), with gap size 3.
C12_GapOfSizeThree ==
  C12_Case =>
    /\ lastCall.result.gap_count = 1
    /\ lastCall.result.gaps = <<[date |-> C12_Dates[3], gap_days |-> 3]>>

\* C12 amended: on the dates [D1, D1+1, D1+3, D1+4] date-sequence validation
\* reports exactly one gap, at the third date (D1+3), and its gap size is 2:
\* the days between the second and the third date.
C12_GapOfSizeTwo ==
  C12_Case =>
    /\ lastCall.result.gap_count = 1
    /\ lastCall.result.gaps =
         <<[date |-> C12_Dates[3], gap_days |-> C12_Dates[3] - C12_Dates[2]]>>
    /\ lastCall.result.gaps[1].gap_days = 2

C12_Witness == C12_Case /\ lastCall.result.gap_count = 1

\* Row label i (0-based) of the column is null in the validated table.
C13_IsNull(col, i) == validator.df.data[col][i + 1].isna

\* The run covers only nulls and cannot be extended at either end.
C13_MaximalRun(col, run) ==
  /\ 0 <= run.start /\ run.start <= run.end /\ run.end <= validator.df.nrows - 1
  /\ \A i \in run.start..run.end : C13_IsNull(col, i)
  /\ run.start = 0 \/ ~C13_IsNull(col, run.start - 1)
  /\ run.end = validator.df.nrows - 1 \/ ~C13_IsNull(col, run.end + 1)

C13_Lengths(runs) == [k \in 1..Len(runs) |-> runs[k].length]

\* mask [F,F,T,T,T,F,T]
C13_ExampleMask == <<FALSE, FALSE, TRUE, TRUE, TRUE, FALSE, TRUE>>

\* C13: for every variable the consecutive-null runs of
\* detect_missing_data_patterns are maximal runs of the null mask, do not
\* overlap, are ordered by start, have length = end - start + 1, cover every
\* null row (a run open at the end of the table closes at the last row) and
\* their lengths sum to null_count; the mask [F,F,T,T,T,F,T] gives exactly
\* the runs 2..4 (length 3) and 6..6 (length 1).
C13_NullRuns ==
  lastCall.op = "detect_missing_data_patterns" =>
    /\ DOMAIN lastCall.result = Range(VariableColumns(validator.df))
    /\ \A col \in DOMAIN lastCall.result :
         LET entry == lastCall.result[col]
             runs == entry.consecutive_nulls
         IN  /\ \A k \in 1..Len(runs) :
                  /\ C13_MaximalRun(col, runs[k])
                  /\ runs[k].length = runs[k].end - runs[k].start + 1
             /\ \A k \in 1..(Len(runs) - 1) : runs[k].end < runs[k + 1].start
             /\ \A i \in 0..(validator.df.nrows - 1) :
                  C13_IsNull(col, i) =>
                    \E k \in 1..Len(runs) : runs[k].start <= i /\ i <= runs[k].end
             /\ SeqSum(C13_Lengths(runs)) = entry.null_count
             /\ entry.null_count =
                  Cardinality({i \in 0..(validator.df.nrows - 1) : C13_IsNull(col, i)})
             /\ null_mask(validator.df.data[col]) = C13_ExampleMask =>
                  /\ Len(runs) = 2
                  /\ runs[1].start = 2 /\ runs[1].end = 4 /\ runs[1].length = 3
                  /\ runs[2].start = 6 /\ runs[2].end = 6 /\ runs[2].length = 1

C13_Witness ==
  /\ lastCall.op = "detect_missing_data_patterns"
  /\ INSOL \in DOMAIN lastCall.result
  /\ null_mask(validator.df.data[INSOL]) = C13_ExampleMask
  /\ Len(lastCall.result[INSOL].consecutive_nulls) = 2

\* The column detect_outliers_iqr was just called on.
C14_Series == validator.df.data[lastCall.arg[1]]

\* detect_outliers_iqr has just run on a column of at least 4 non-null values.
C14_Case ==
  /\ lastCall.op = "detect_outliers_iqr"
  /\ NotNaCount(C14_Series) >= 4

\* The data in ascending order.
C14_Sorted(data) ==
  CHOOSE s \in [1..Len(data) -> Range(data)] :
    /\ \A k \in 1..(Len(data) - 1) : s[k] <= s[k + 1]
    /\ \A v \in Range(data) :
         Cardinality({k \in 1..Len(data) : s[k] = v})
           = Cardinality({k \in 1..Len(data) : data[k] = v})

\* The quartile q/4 by linear interpolation: with h = (n - 1) * q / 4 and the
\* sorted values x[0..n-1], x[floor(h)] + (h - floor(h)) * (x[floor(h) + 1] -
\* x[floor(h)]).
C14_Quartile(data, q) ==
  LET x == C14_Sorted(data)
      h4 == (Len(data) - 1) * q
      lo == h4 \div 4
  IN  IF h4 % 4 = 0 THEN Num(x[lo + 1])
      ELSE Rat(4 * x[lo + 1] + (h4 % 4) * (x[lo + 2] - x[lo + 1]), 4)

C14_Lower ==
  LET Q1 == C14_Quartile(DropNa(C14_Series), 1)
      Q3 == C14_Quartile(DropNa(C14_Series), 3)
  IN  FSub(Q1, FMul(lastCall.arg[2], FSub(Q3, Q1)))

C14_Upper ==
  LET Q1 == C14_Quartile(DropNa(C14_Series), 1)
      Q3 == C14_Quartile(DropNa(C14_Series), 3)
  IN  FAdd(Q3, FMul(lastCall.arg[2], FSub(Q3, Q1)))

\* C14: with at least 4 non-null values detect_outliers_iqr flags exactly the
\* rows whose non-null value is strictly below Q1 - multiplier * IQR or
\* strictly above Q3 + multiplier * IQR, Q1 and Q3 the linear-interpolation
\* quartiles of the non-null values; a value equal to a bound and a null row
\* are never flagged; on [10,12,11,13,12,100] with multiplier 1.5 exactly the
\* row holding 100 is flagged.
C14_IqrOutliers ==
  C14_Case =>
    LET s == C14_Series
        indices == lastCall.result.indices
        stats == lastCall.result.stats
    IN  /\ stats.Q1 = C14_Quartile(DropNa(s), 1)
        /\ stats.Q3 = C14_Quartile(DropNa(s), 3)
        /\ stats.lower_bound = C14_Lower
        /\ stats.upper_bound = C14_Upper
        /\ \A k \in 1..(Len(indices) - 1) : indices[k] < indices[k + 1]
        /\ Range(indices) =
             {i - 1 : i \in {j \in 1..Len(s) :
                               /\ ~s[j].isna
                               /\ (FLt(Num(s[j].v), C14_Lower)
                                   \/ FLt(C14_Upper, Num(s[j].v)))}}
        /\ \A i \in 1..Len(s) :
             (s[i].isna \/ Num(s[i].v) = C14_Lower \/ Num(s[i].v) = C14_Upper)
               => (i - 1) \notin Range(indices)
        /\ (DropNa(s) = DropNa(IqrExample) /\ lastCall.arg[2] = Rat(3, 2)) =>
             /\ Len(indices) = 1
             /\ s[indices[1] + 1] = Cell(100)
             /\ stats.lower_bound = Num(9)
             /\ stats.upper_bound = Num(15)

\* The example series after a null row: the row of 100 (label 6) is flagged.
C14_Witness ==
  /\ C14_Case
  /\ C14_Series = <<NA>> \o IqrExample
  /\ lastCall.arg[2] = Rat(3, 2)
  /\ lastCall.result.indices = <<6>>

\* A value equal to a bound is on the table and is not flagged.
C14_WitnessOnBound ==
  /\ C14_Case
  /\ \E i \in 1..Len(C14_Series) :
       ~C14_Series[i].isna /\ Num(C14_Series[i].v) = C14_Upper
  /\ lastCall.result.indices # <<>>

\* The operations of QualityMetricsCalculator.
C16_MetricsOps ==
  { "calculate_quality_index", "get_variable_quality_report",
    "get_overall_quality_index", "get_quality_summary" }

\* C16: no DataValidator or QualityMetricsCalculator operation changes the
\* caller's table (same rows, columns, values and order after any sequence of
\* validator and metrics calls), the validator's private copy stays equal to
\* it, and a metrics operation changes neither the validation results it was
\* handed nor the validator's.
C16_CallerTableUntouched ==
  [][ /\ df' = df
      /\ validator'.df = df
      /\ lastCall'.op \in C16_MetricsOps =>
           /\ calc'.validation_results = calc.validation_results
           /\ validator'.validation_results = validator.validation_results ]_vars

\* Validator and metrics calls have been made on a table with a null, an
\* out-of-range value and a change point, and the table is as it was.
C16_Witness ==
  /\ df \in ChangeTables
  /\ calc.built
  /\ calc.metrics # <<>>
  /\ validator.validation_results # <<>>
  /\ lastCall.op = "detect_change_points"
  /\ lastCall.result.change_points # <<>>

\* The non-null dates, in row order, of the table validate_date_sequence ran on.
C17_Dates == DropNa(validator.df.data["Data"])

\* C17: with at least 2 non-null dates validate_date_sequence reports
\* is_sorted true if and only if the non-null dates are entirely
\* non-decreasing or entirely non-increasing (so it reports true for the
\* ascending dates of a loaded table).
C17_IsSortedIffMonotonic ==
  (lastCall.op = "validate_date_sequence" /\ Len(C17_Dates) >= 2) =>
    (lastCall.result.is_sorted <=>
       \/ \A k \in 1..(Len(C17_Dates) - 1) : C17_Dates[k] <= C17_Dates[k + 1]
       \/ \A k \in 1..(Len(C17_Dates) - 1) : C17_Dates[k] >= C17_Dates[k + 1])

\* The non-null values of the column get_variable_quality_report was called on.
C18_Data == DropNa(df.data[lastCall.arg])

\* The values more than 3 population standard deviations (divisor n) from
\* the mean; none when the standard deviation is 0.
C18_PopulationAnomalies ==
  Cardinality({i \in 1..Len(C18_Data) :
                 ZScoreAbove(C18_Data, C18_Data[i], Num(3), 0)})

\* C18: calculate_consistency counts as anomalies exactly the non-null values
\* whose absolute z-score, with the population mean and standard deviation
\* (divisor n), exceeds 3; consistency = (non-null - anomalies) / non-null *
\* 100; the count is 0 when the standard deviation is 0; with fewer than 2
\* non-null values the result is 0 with the insufficient-data message.
C18_ConsistencyByPopulationZ ==
  lastCall.op = "get_variable_quality_report" =>
    LET c == lastCall.result.consistency
    IN  IF Len(C18_Data) < 2
          THEN c.consistency_percentage = Num(0) /\ c.message = "Dados insuficientes"
          ELSE /\ c.anomaly_count = C18_PopulationAnomalies
               /\ StdIsZero(C18_Data) => c.anomaly_count = 0
               /\ c.consistency_percentage =
                    FMul(Rat(Len(C18_Data) - C18_PopulationAnomalies, Len(C18_Data)),
                         Num(100))

\* The non-null values of the column of the caller's table.
C19_Values(col) == DropNa(df.data[col])

\* How many of them are inside the column's inclusive physical range.
C19_InRange(col) ==
  Cardinality({i \in 1..Len(C19_Values(col)) :
                 /\ PHYSICAL_LIMITS[col][1] <= C19_Values(col)[i]
                 /\ C19_Values(col)[i] <= PHYSICAL_LIMITS[col][2]})

\* The table with the column's null rows removed.
C19_WithoutNullRows(col) ==
  LET keep == NotNaRows(df.data[col])
  IN  Table(df.columns, Len(keep),
            [c \in DOMAIN df.data |-> [k \in 1..Len(keep) |-> df.data[c][keep[k]]]])

\* C19: calculate_validity gives, for each variable of the validation
\* results, validity_percentage = valid_count / (valid_count + invalid_count)
\* * 100 over the non-null values, 0 when there is no non-null value; it is
\* the percentage of the same column with its null rows removed.
C19_ValidityOverNonNull ==
  lastCall.op = "get_quality_summary" =>
    LET validity == lastCall.result.validity
    IN  /\ DOMAIN validity = DOMAIN calc.validation_results
        /\ \A col \in DOMAIN validity :
             /\ validity[col].valid_count + validity[col].invalid_count
                  = Len(C19_Values(col))
             /\ validity[col].valid_count = C19_InRange(col)
             /\ validity[col].validity_percentage =
                  IF Len(C19_Values(col)) = 0 THEN Num(0)
                  ELSE FMul(Rat(C19_InRange(col), Len(C19_Values(col))), Num(100))
             /\ validity[col].validity_percentage =
                  calculate_validity(
                    C19_WithoutNullRows(col),
                    validate_physical_limits(C19_WithoutNullRows(col)),
                    col)[col].validity_percentage

\* A column of a null row and an in-range value: validity 100, not 50.
C19_Witness ==
  /\ lastCall.op = "get_quality_summary"
  /\ PRECIP \in DOMAIN lastCall.result.validity
  /\ lastCall.result.validity[PRECIP].null_count = 1
  /\ lastCall.result.validity[PRECIP].valid_count = 1
  /\ lastCall.result.validity[PRECIP].invalid_count = 0
  /\ lastCall.result.validity[PRECIP].validity_percentage = Num(100)

\* The rows (0-based labels) of the column whose non-null value is outside
\* the inclusive range [min, max] of the column.
C20_OutOfRange(col) ==
  {i - 1 : i \in {j \in 1..validator.df.nrows :
                    /\ ~validator.df.data[col][j].isna
                    /\ (validator.df.data[col][j].v < PHYSICAL_LIMITS[col][1]
                        \/ validator.df.data[col][j].v > PHYSICAL_LIMITS[col][2])}}

\* C20: validate_physical_limits returns an entry exactly for the variable
\* columns with a configured [min, max] range, never for the date column;
\* valid_count counts the non-null values with min <= v <= max, invalid_count
\* the non-null values outside, null_count the nulls, and invalid_indices
\* lists exactly the rows of the non-null out-of-range values.
C20_PhysicalLimitEntries ==
  lastCall.op = "validate_physical_limits" =>
    LET t == validator.df
        results == lastCall.result
    IN  /\ DOMAIN results = (Range(t.columns) \cap DOMAIN PHYSICAL_LIMITS) \ {"Data"}
        /\ \A col \in DOMAIN results :
             LET s == t.data[col]
                 entry == results[col]
             IN  /\ entry.valid_count =
                      Cardinality({i \in 1..Len(s) :
                                     /\ ~s[i].isna
                                     /\ PHYSICAL_LIMITS[col][1] <= s[i].v
                                     /\ s[i].v <= PHYSICAL_LIMITS[col][2]})
                 /\ entry.invalid_count = Cardinality(C20_OutOfRange(col))
                 /\ entry.null_count = Cardinality({i \in 1..Len(s) : s[i].isna})
                 /\ entry.valid_count + entry.invalid_count + entry.null_count = t.nrows
                 /\ Range(entry.invalid_indices) = C20_OutOfRange(col)
                 /\ Len(entry.invalid_indices) = Cardinality(C20_OutOfRange(col))
                 /\ \A k \in 1..(Len(entry.invalid_indices) - 1) :
                      entry.invalid_indices[k] < entry.invalid_indices[k + 1]

\* A value on the upper limit (500) counted valid beside one above it (501)
\* counted invalid at row 1, in a table whose other column has no range.
C20_Witness ==
  /\ lastCall.op = "validate_physical_limits"
  /\ validator.df.columns = <<"Data", PRECIP, INSOL>>
  /\ DOMAIN lastCall.result = {PRECIP}
  /\ validator.df.data[PRECIP] = <<Cell(500), Cell(501)>>
  /\ lastCall.result[PRECIP].valid_count = 1
  /\ lastCall.result[PRECIP].invalid_indices = <<1>>

\* The checkpoints 0.3, 0.6, 0.9, 1.0 in tenths.
C21_Checkpoints == <<3, 6, 9, 10>>

\* C21: in a run of load_data with a progress callback the values reported
\* so far are a prefix of 0.3, 0.6, 0.9, 1.0 (so strictly increasing); 0.3
\* is reported only after the metadata and the header line are read, 0.6
\* only after the raw parse, 0.9 only after date normalization and numeric
\* coercion, 1.0 only after the sorted table is stored; 1.0 has been
\* reported if and only if the load returned a table.
C21_ProgressCheckpoints ==
  /\ Len(progress) <= Len(C21_Checkpoints)
  /\ progress = SubSeq(C21_Checkpoints, 1, Len(progress))
  /\ ~work.cb => progress = <<>>
  /\ Len(progress) >= 1 =>
       /\ pc \in {"read_csv", "to_datetime", "to_numeric", "sort_values", "idle"}
       /\ loader.metadata = extract_metadata(file)
       /\ loader.header_line = find_header_line(file)
  /\ Len(progress) >= 2 =>
       /\ pc \in {"to_datetime", "to_numeric", "sort_values", "idle"}
       /\ ~read_csv(file, loader.header_line).raised
  /\ Len(progress) >= 3 =>
       /\ pc \in {"sort_values", "idle"}
       /\ pc = "sort_values" => work.df = FrameToSort(file)
  /\ Len(progress) = 4 =>
       /\ pc = "idle"
       /\ outcome.kind = "returned"
       /\ loader.has_df
       /\ loader.df = outcome.df
  /\ (work.cb /\ pc = "idle" /\ outcome.kind = "returned") => Len(progress) = 4
  /\ (pc = "idle" /\ outcome.kind = "raised") => Len(progress) < 4

\* A load with a callback has returned a table after the four checkpoints.
C21_Witness ==
  /\ work.cb
  /\ outcome.kind = "returned"
  /\ outcome.df.nrows > 0
  /\ progress = C21_Checkpoints

\* A load with a callback has raised after 0.3 and 0.6 were reported.
C21_WitnessRaised ==
  /\ work.cb
  /\ outcome.kind = "raised"
  /\ progress = <<3, 6>>

\* The non-null dates, in row order, of the validated table.
C22_Dates == DropNa(validator.df.data["Data"])

\* The positions (2..n) whose date is neither the date before it nor the day
\* after that.
C22_GapPositions ==
  SelectSeq([k \in 1..(Len(C22_Dates) - 1) |-> k + 1],
            LAMBDA k : /\ C22_Dates[k] - C22_Dates[k - 1] # 0
                       /\ C22_Dates[k] - C22_Dates[k - 1] # 1)

\* C22: validate_date_sequence returns one gap entry for every consecutive
\* pair of non-null dates whose difference in days is neither 0 nor +1 and
\* for no other pair, in row order, each with the later date of the pair and
\* the signed difference (negative for a backwards step); gap_count is the
\* number of entries.
C22_GapEntries ==
  (lastCall.op = "validate_date_sequence" /\ Len(C22_Dates) >= 2) =>
    LET gaps == lastCall.result.gaps
    IN  /\ Len(gaps) = Len(C22_GapPositions)
        /\ lastCall.result.gap_count = Len(gaps)
        /\ \A g \in 1..Len(gaps) :
             LET k == C22_GapPositions[g]
             IN  /\ gaps[g].date = C22_Dates[k]
                 /\ gaps[g].gap_days = C22_Dates[k] - C22_Dates[k - 1]

\* A backwards step and a forward gap on one table: entries -1 and 3.
C22_Witness ==
  /\ lastCall.op = "validate_date_sequence"
  /\ C22_Dates = <<2, 1, 4>>
  /\ lastCall.result.gaps = <<[date |-> 1, gap_days |-> -1], [date |-> 4, gap_days |-> 3]>>

\* The number of non-null values of the column the detector was called on.
C23_NonNull == NotNaCount(validator.df.data[lastCall.arg[1]])

\* The (indices, stats) pair of a detector that did not compute.
C23_EmptyPair == [indices |-> <<>>, stats |-> <<>>]

\* C23: a detector below its minimum sample size returns an explicit
\* insufficient-data result, different from every computed result:
\* detect_outliers_iqr under 4 non-null values and detect_outliers_zscore
\* under 2 return an empty index list with empty statistics,
\* detect_change_points under 2 * window_size non-null values returns no
\* change points with the insufficient-data message, validate_date_sequence
\* under 2 non-null dates returns a message; from the minimum size on each
\* returns a computed result (statistics, counts, gaps).
C23_InsufficientData ==
  /\ lastCall.op = "detect_outliers_iqr" =>
       IF C23_NonNull < 4 THEN lastCall.result = C23_EmptyPair
       ELSE /\ lastCall.result.stats # <<>>
            /\ lastCall.result.stats.outlier_count = Len(lastCall.result.indices)
  /\ lastCall.op = "detect_outliers_zscore" =>
       IF C23_NonNull < 2 THEN lastCall.result = C23_EmptyPair
       ELSE /\ lastCall.result.stats # <<>>
            /\ lastCall.result.stats.outlier_count = Len(lastCall.result.indices)
  /\ lastCall.op = "detect_change_points" =>
       IF C23_NonNull < 2 * lastCall.arg[2]
         THEN lastCall.result = [change_points |-> <<>>, message |-> "Dados insuficientes"]
         ELSE /\ "message" \notin DOMAIN lastCall.result
              /\ lastCall.result.change_count = Len(lastCall.result.change_points)
  /\ lastCall.op = "validate_date_sequence" =>
       IF NotNaCount(validator.df.data["Data"]) < 2
         THEN /\ DOMAIN lastCall.result = {"valid", "message"}
              /\ lastCall.result.valid = FALSE
              /\ lastCall.result.message = "Dados insuficientes"
         ELSE /\ "message" \notin DOMAIN lastCall.result
              /\ lastCall.result.gap_count = Len(lastCall.result.gaps)

\* Below the minimum: the quartile detector on 3 non-null values out of 4 rows.
C23_Witness ==
  /\ lastCall.op = "detect_outliers_iqr"
  /\ validator.df.nrows = 4
  /\ C23_NonNull = 3
  /\ lastCall.result = C23_EmptyPair

\* At the minimum, nothing found: statistics are returned with an empty list.
C23_WitnessAtMinimum ==
  /\ lastCall.op = "detect_outliers_zscore"
  /\ C23_NonNull = 2
  /\ lastCall.result.indices = <<>>
  /\ lastCall.result.stats # <<>>

\* Change points at exactly 2 * window_size non-null values.
C23_WitnessChangePoints ==
  /\ lastCall.op = "detect_change_points"
  /\ C23_NonNull = 2 * lastCall.arg[2]
  /\ lastCall.result.change_points # <<>>

\* The detectors other than the physical-limit validation.
C24_OtherDetectors ==
  { "detect_outliers_iqr", "detect_outliers_zscore", "detect_change_points",
    "detect_missing_data_patterns", "validate_date_sequence" }

\* C24: after any DataValidator call the physical-limit cache is empty or
\* what validate_physical_limits returns for the stored table;
\* get_anomalies_for_variable(v) returns the cached entry of v and leaves the
\* cache as it is when v is cached, otherwise fills the cache with the
\* results for every configured variable and returns the fresh entry of v,
\* an empty one when v has no configured range; the other detectors leave
\* the cache as it is; validate_physical_limits called twice returns equal
\* results.
C24_PhysicalLimitCache ==
  [][ /\ validator'.validation_results
           \in {<<>>, validate_physical_limits(validator'.df)}
      /\ lastCall'.op = "get_anomalies_for_variable" =>
           LET column == lastCall'.arg
               fresh == validate_physical_limits(validator.df)
           IN  IF column \in DOMAIN validator.validation_results
                 THEN /\ validator' = validator
                      /\ lastCall'.result.physical_limits
                           = validator.validation_results[column]
                 ELSE /\ validator'.validation_results = fresh
                      /\ lastCall'.result.physical_limits =
                           IF column \in DOMAIN PHYSICAL_LIMITS THEN fresh[column]
                           ELSE <<>>
      /\ lastCall'.op \in C24_OtherDetectors => validator' = validator
      /\ (lastCall.op = "validate_physical_limits"
          /\ lastCall'.op = "validate_physical_limits") =>
           /\ lastCall'.result = lastCall.result
           /\ validator' = validator ]_vars

\* get_anomalies_for_variable on a variable without a range was the first
\* call to fill the cache: it holds the entry of the configured variable,
\* and the entry returned is empty.
C24_Witness ==
  /\ lastCall.op = "get_anomalies_for_variable"
  /\ lastCall.arg = INSOL
  /\ lastCall.result.physical_limits = <<>>
  /\ DOMAIN validator.validation_results = {PRECIP}
  /\ validator.validation_results[PRECIP].invalid_count = 1

\* The lines (counted from 1) of the file that hold 'Data Medicao'.
C25_MarkerLines == {i \in 1..Len(file) : Contains(file[i], MARKER)}

\* The 0-based index of the first of them, 10 when there is none.
C25_HeaderIndex ==
  IF C25_MarkerLines = {} THEN 10 ELSE SetMin(C25_MarkerLines) - 1

\* find_header_line has run in the load under way or just ended.
C25_Found ==
  \/ pc \in {"read_csv", "to_datetime", "to_numeric", "sort_values"}
  \/ pc = "idle" /\ outcome.kind \in {"returned", "raised"}

\* C25: find_header_line returns, and records as the header line, the
\* 0-based index of the first line of the file holding 'Data Medicao', and
\* the default index 10 when no line holds it; load_data parses the table
\* from that line: the line gives the names of the columns kept and every
\* line after it a row.
C25_HeaderLineFound ==
  /\ C25_Found => loader.header_line = C25_HeaderIndex
  /\ pc = "to_datetime" =>
       /\ C25_HeaderIndex < Len(file)
       /\ work.df.nrows = Len(file) - C25_HeaderIndex - 1
       /\ Range(work.df.columns) \subseteq
            Range(Split(file[C25_HeaderIndex + 1], CSV_SEPARATOR))
       /\ work.df.nrows > 0 => work.df.columns # <<>>
  /\ (pc = "idle" /\ outcome.kind = "returned") =>
       outcome.df.nrows = Len(file) - C25_HeaderIndex - 1

\* No line holds the marker and the table was parsed from line index 10.
C25_Witness ==
  /\ C25_MarkerLines = {}
  /\ pc = "to_datetime"
  /\ loader.header_line = 10
  /\ work.df.nrows > 0

\* The marker is at line index 11, not at the default index.
C25_WitnessMarker ==
  /\ C25_MarkerLines = {12}
  /\ pc = "to_datetime"
  /\ loader.header_line = 11
  /\ work.df.nrows > 0

\* The metadata the claim describes, from the first 9 lines: colon the
\* place of the first colon of the trimmed line (0: none), key the trimmed
\* text before it and value the trimmed text after it; for each key the
\* value of the last line that has it.
C26_Expected ==
  LET line == [i \in 1..9 |-> Strip(ReadLine(file, i))]
      colon == [i \in 1..9 |-> IndexOf(line[i], ":")]
      key == [i \in 1..9 |-> Join(Strip(SubSeq(line[i], 1, colon[i] - 1)))]
      value == [i \in 1..9 |->
                  Join(Strip(SubSeq(line[i], colon[i] + 1, Len(line[i]))))]
      colon_lines == {i \in 1..9 : colon[i] # 0}
  IN  [k \in {key[i] : i \in colon_lines} |->
         value[SetMax({i \in colon_lines : key[i] = k})]]

\* C26: extract_metadata reads the first 9 lines only; each of them that
\* contains a colon gives the trimmed text before its first colon as key and
\* the trimmed text after it (later colons included) as value; a line
\* without a colon gives nothing; the 10th line and those after it give
\* nothing; of the lines with one key the last gives the value.
\* The step of extract_metadata leaves that metadata in the loader, no
\* later step of the load changes it, and the load returns it.
C26_MetadataOfFirstLines ==
  [][ /\ pc = "extract_metadata" => loader'.metadata = C26_Expected
      /\ pc \notin {"idle", "extract_metadata"} => loader'.metadata = loader.metadata
      /\ (pc = "sort_values" /\ pc' = "idle") => outcome'.metadata = loader.metadata ]_vars

\* Line 1 has no colon, line 9 repeats the key of line 3 and has a colon in
\* its value, line 10 has a colon and a key of its own.
C26_Witness ==
  /\ pc = "find_header_line"
  /\ file[1] = <<"-", "-">>
  /\ IndexOf(file[10], ":") # 0
  /\ "Extra" \notin DOMAIN loader.metadata
  /\ loader.metadata["Latitude"] = "1:2"
  /\ Cardinality(DOMAIN loader.metadata) = 7

\* The variable columns of the table that have no configured physical range.
C27_Unconfigured == {c \in Range(VariableColumns(df)) : c \notin DOMAIN PHYSICAL_LIMITS}

\* The quality indices of all the variables of the table.
C27_AllIndices == calculate_quality_index(df, calc.validation_results, None)

\* C27: a variable column without a configured physical range has no entry
\* in the validity map, has validity_score 0 in calculate_quality_index and
\* so a quality_index of at most 60 whatever its data, and is counted, with
\* that index, in the mean of get_overall_quality_index.
C27_UnconfiguredVariableCapped ==
  /\ lastCall.op = "get_quality_summary" =>
       \A col \in C27_Unconfigured : col \notin DOMAIN lastCall.result.validity
  /\ lastCall.op = "calculate_quality_index" =>
       \A col \in C27_Unconfigured \cap DOMAIN lastCall.result :
         /\ lastCall.result[col].validity_score = Num(0)
         /\ FLe(lastCall.result[col].quality_index, Num(60))
  /\ (lastCall.op = "get_overall_quality_index" /\ C27_Unconfigured # {}) =>
       /\ lastCall.result.variable_count = Len(VariableColumns(df))
       /\ lastCall.result.overall_quality_index =
            NpMean([k \in 1..Len(VariableColumns(df)) |->
                      C27_AllIndices[VariableColumns(df)[k]].quality_index])

\* The same on tables with at least one row.
C27_OnTablesWithRows == df.nrows > 0 => C27_UnconfiguredVariableCapped

\* The same when the overall index is not asked for after the index of one
\* column.
C27_WithoutStaleMetrics ==
  (df.nrows > 0 /\ (lastCall.op = "get_overall_quality_index" =>
                      DOMAIN calc.metrics = Range(VariableColumns(df))))
    => C27_UnconfiguredVariableCapped

\* The number of non-null values of the column the z-score detector was
\* called on.
C28_Detected == NotNaCount(validator.df.data[lastCall.arg[1]])

\* The number of non-null values of the column of the quality report.
C28_Reported == NotNaCount(df.data[lastCall.arg])

\* calculate_consistency on 2 to 10 non-null values finds no anomaly.
C28_ConsistencyFull ==
  (lastCall.op = "get_variable_quality_report" /\ C28_Reported \in 2..10) =>
    /\ lastCall.result.consistency.anomaly_count = 0
    /\ lastCall.result.consistency.consistency_percentage = Num(100)

\* C28 as stated: with 2 to 10 non-null values, whatever they are, no value
\* has an absolute z-score above 3: calculate_consistency returns
\* anomaly_count 0 and consistency_percentage 100, and detect_outliers_zscore
\* with the default threshold 3.0 returns an empty index list.
C28_NoAnomalyUpToTen ==
  /\ C28_ConsistencyFull
  /\ (lastCall.op = "detect_outliers_zscore" /\ lastCall.arg[2] = Num(3)
      /\ C28_Detected \in 2..10) =>
       lastCall.result.indices = <<>>

\* C28 amended: calculate_consistency returns anomaly_count 0 and
\* consistency_percentage 100 with 2 to 10 non-null values, and
\* detect_outliers_zscore with the default threshold 3.0 returns an empty
\* index list with 2 to 9; with 10 values, nine of them equal, the
\* population z-score of the tenth is exactly 3 and the detector flags it
\* when the floating-point score is rounded above 3, and nothing else.
C28_NoAnomalyUpToNine ==
  /\ C28_ConsistencyFull
  /\ (lastCall.op = "detect_outliers_zscore" /\ lastCall.arg[2] = Num(3)) =>
       /\ C28_Detected \in 2..9 => lastCall.result.indices = <<>>
       /\ C28_Detected = 10 =>
            \A k \in 1..Len(lastCall.result.indices) :
              LET data == DropNa(validator.df.data[lastCall.arg[1]])
                  x == validator.df.data[lastCall.arg[1]][lastCall.result.indices[k] + 1].v
              IN  ZScoreAtThreshold(data, x, Num(3), ZscoreDdof)

\* The detector has found nothing among 9 non-null values, eight of them equal.
C28_Witness ==
  /\ lastCall.op = "detect_outliers_zscore"
  /\ C28_Detected = 9
  /\ lastCall.result.indices = <<>>
  /\ lastCall.result.stats # <<>>

\* The detector has flagged the tenth of 10 non-null values.
C28_WitnessTen ==
  /\ lastCall.op = "detect_outliers_zscore"
  /\ C28_Detected = 10
  /\ validator.df.nrows = 10
  /\ lastCall.result.indices = <<9>>

\* C29: in the pipeline DataValidator(table).validate_physical_limits() ->
\* QualityMetricsCalculator(table, results), get_quality_summary gives, for
\* every variable with a configured range, validity[v].null_count =
\* completeness[v].null_count, validity[v].valid_count +
\* validity[v].invalid_count = completeness[v].non_null_count and
\* validity[v].total_count = completeness[v].total_count.
C29_CountsAgree ==
  lastCall.op = "get_quality_summary" =>
    LET validity == lastCall.result.validity
        completeness == lastCall.result.completeness
    IN  /\ DOMAIN validity = Range(VariableColumns(df)) \cap DOMAIN PHYSICAL_LIMITS
        /\ DOMAIN validity \subseteq DOMAIN completeness
        /\ \A v \in DOMAIN validity :
             /\ validity[v].null_count = completeness[v].null_count
             /\ validity[v].valid_count + validity[v].invalid_count
                  = completeness[v].non_null_count
             /\ validity[v].total_count = completeness[v].total_count

\* The summary of a table whose precipitation column has a null and an
\* out-of-range value.
C29_Witness ==
  /\ lastCall.op = "get_quality_summary"
  /\ PRECIP \in DOMAIN lastCall.result.validity
  /\ lastCall.result.validity[PRECIP].null_count = 1
  /\ lastCall.result.validity[PRECIP].invalid_count = 1
  /\ lastCall.result.completeness[PRECIP].non_null_count = 1

\* C30: for every variable of the quality summary, the index the report
\* generator recomputes (completeness_percentage*0.4 + validity_percentage*0.4
\* + consistency_percentage*0.2, with 0 for a missing validity or consistency
\* entry) is the quality_index calculate_quality_index returns for that
\* variable of the same table.
C30_ReportIndexIsQualityIndex ==
  lastCall.op = "_create_variable_analysis" =>
    LET quality_indices == calculate_quality_index(df, calc.validation_results, None)
    IN  /\ DOMAIN lastCall.result = DOMAIN quality_indices
        /\ \A var \in DOMAIN lastCall.result :
             lastCall.result[var].overall_score = quality_indices[var].quality_index

\* A report over a table with a fully valid precipitation column and a
\* complete column without configured range: the latter's validity entry
\* is missing and its index is 100*0.4 + 0*0.4 + 100*0.2 = 60.
C30_Witness ==
  /\ lastCall.op = "_create_variable_analysis"
  /\ {PRECIP, INSOL} \subseteq DOMAIN lastCall.result
  /\ INSOL \notin DOMAIN calculate_validity(df, calc.validation_results, None)
  /\ lastCall.result[INSOL].valid_score = Num(0)
  /\ lastCall.result[INSOL].overall_score = Num(60)
  /\ lastCall.result[PRECIP].overall_score = Num(100)

====
